---- MODULE Spec2Model ----
(***************************************************************************)
(* A model of the @hsuite/health library:                                  *)
(*   - DagHealthIndicator  (src/src/health.service.ts, lines 471-631)      *)
(*   - HealthService.check (src/src/health.service.ts, lines 352-361)      *)
(*   - HealthController    (src/unnamed/part_001, lines 65-255)            *)
(*                                                                         *)
(* The program runs on the JavaScript event loop: a callback runs to its   *)
(* end, or to its next await, before any other callback starts.  The       *)
(* notification handlers and isHealthy() contain no await, so each is one  *)
(* uninterrupted run of statements.  The model keeps the statements apart  *)
(* (one action per statement) and states the event loop's rule in          *)
(* RunToCompletion, so that atomicity is a property the model checks, not  *)
(* one it assumes.                                                         *)
(***************************************************************************)
EXTENDS Integers, Sequences, FiniteSets, TLC

VARIABLES
    _isHealthy,   \* DagHealthIndicator._isHealthy
    dagNetwork,   \* DagHealthIndicator.dagNetwork
    hpc,          \* position of the running notification handler
    hpayload,     \* the payload the running handler was called with
    rpc,          \* position of the running isHealthy() call
    rflag,        \* isHealthy(): the value of _isHealthy read for getStatus
    rresult,      \* isHealthy(): the local constant `result`
    rfor,         \* who called isHealthy(): "direct" or "check"
    rctx,         \* history: what had been delivered when isHealthy() began
    out,          \* the outcome of the last direct isHealthy() call
    lastNote,     \* history: the most recently delivered notification
    everOnline,   \* history: an online notification has been delivered
    pass,         \* the HealthService.check() call in progress or last finished
    age,          \* time elapsed since the last pass finished, capped at CacheTTL
    repeated,     \* history: the last notification repeated the one before it
    probe,        \* a library indicator called on its own: its inputs and outcome
    cpuUsage,     \* process.cpuUsage(): CPU time the process has used since it started
    executor      \* how the installed @nestjs/terminus runs the indicators of a check

vars == <<_isHealthy, dagNetwork, hpc, hpayload, rpc, rflag, rresult, rfor, rctx,
          out, lastNote, everOnline, pass, age, repeated, probe, cpuUsage, executor>>

dagVars == <<_isHealthy, dagNetwork, hpc, hpayload, lastNote, everOnline, repeated>>
readerVars == <<rpc, rflag, rresult, rfor, rctx>>

----------------------------------------------------------------------------
(* Bounds of the model. *)

\* network descriptors 1..MaxDescriptor are sent to the indicator on its own
MaxDescriptor == 2
\* network descriptors 1..MaxCheckDescriptor are sent while checks run
MaxCheckDescriptor == 1
\* at most MaxOverlap health checks are in progress at once
MaxOverlap == 3
\* a disk has 0..MaxDiskSize units of space
MaxDiskSize == 12
\* memory readings lie within MaxMemoryDelta bytes of the limit
MaxMemoryDelta == 3
\* the timeout of a ping, in units of the model's clock
TimeoutTicks == 3
\* the machine has 0..MaxInterfaces network interfaces
MaxInterfaces == 2
\* each counter of an interface reads 0..MaxBytes
MaxBytes == 1
\* the process uses up to MaxCpuTime units of CPU time in each mode
MaxCpuTime == 1
\* os.cpus() lists 0..MaxCores cores
MaxCores == 2
\* the speed of a core reads 1..MaxSpeed
MaxSpeed == 1

\* @CacheTTL(1): the time-to-live the two routes declare, in units of time
CacheTTL == 1

----------------------------------------------------------------------------
(* Values. *)

\* `new Array<any>()`: the empty array dagNetwork starts with
EmptyArray == 0
\* the value of `payload.network` when the payload has no network field
Undefined == -1

None == [kind |-> "none"]

\* NetworkPayload: an object with a network field; the field may be missing
\* at run time, since `network: any` is not checked
NetworkPayload(descriptors) ==
    {[network |-> d] : d \in descriptors} \cup {[nodes |-> 0]}

\* the argument of a handler when the event was emitted without one (or with
\* null): the handlers do not check their argument
Nothing == [kind |-> "undefined"]

\* what an event may carry
EventPayloads(descriptors) == NetworkPayload(descriptors) \cup {Nothing}

DagPayloads == EventPayloads(1..MaxDescriptor)

\* the events sent while health checks run: with a descriptor, or with no
\* payload at all
CheckPayloads == {[network |-> d] : d \in 1..MaxCheckDescriptor} \cup {Nothing}

\* `payload.network` throws a TypeError: payload is undefined or null
Throws(payload) == payload = Nothing

\* payload.network, of a payload that is an object
NetworkOf(payload) ==
    IF "network" \in DOMAIN payload THEN payload.network ELSE Undefined

\* A delivered notification, as the history records it: its kind, the
\* descriptor it carried (none when it carried no payload), whether its
\* handler threw, and the network its handler leaves in dagNetwork.
Note(isOnline, payload) ==
    [isOnline |-> isOnline,
     network  |-> NetworkOf(payload),
     threw    |-> Throws(payload),
     left     |-> IF Throws(payload) THEN dagNetwork ELSE NetworkOf(payload)]

\* the notification of kind isOnline that carried an object with descriptor d
Delivered(isOnline, d) ==
    [isOnline |-> isOnline, network |-> d, threw |-> FALSE, left |-> d]

----------------------------------------------------------------------------
(* DagHealthIndicator: fields. *)

\* variant: the indicator starts healthy
InitialIsHealthyTrue == TRUE

\* private _isHealthy: boolean = false
InitialIsHealthy == FALSE

\* private dagNetwork: Array<any> = new Array<any>()
InitialDagNetwork == EmptyArray

----------------------------------------------------------------------------
(* The event loop. *)

\* variant: a handler yields between its two assignments (an await there),
\* so another callback may start while the handler is half done
HandlerYields == rpc = "idle" /\ pass.pc # "invoking"

\* variant: isHealthy() yields between its statements (an await there), so
\* a handler may start while a call of isHealthy() is half done
ReaderYields == hpc = "idle"

\* A callback starts only when no other callback is in the middle of its
\* statements: neither handler nor isHealthy() awaits anything.
RunToCompletion == hpc = "idle" /\ rpc = "idle" /\ pass.pc # "invoking"

----------------------------------------------------------------------------
(* DagHealthIndicator: the notification handlers. *)

\* what handleNetworkThresholdOnline assigns to _isHealthy
OnlineFlag == TRUE

\* what handleNetworkThresholdOffline assigns to _isHealthy
OfflineFlag == FALSE

\* variant: the payload is stored once and never replaced
KeepFirstNetwork(payload, current) ==
    IF Throws(payload) \/ current # EmptyArray THEN current ELSE NetworkOf(payload)

\* variant: a payload equal to the stored one clears the stored one
ClearOnRepeat(payload, current) ==
    IF Throws(payload) THEN current
    ELSE IF current = NetworkOf(payload) THEN EmptyArray ELSE NetworkOf(payload)

\* What dagNetwork holds after `this.dagNetwork = payload.network`.  When
\* payload is undefined or null the right-hand side throws before anything
\* is assigned: the field keeps its value, and the handler's promise is
\* rejected with the TypeError, after _isHealthy has been assigned.
AssignedNetwork(payload, current) ==
    IF Throws(payload) THEN current ELSE NetworkOf(payload)

\* history: whether a notification repeats the last delivered one, and if so
\* the fields of the indicator as the earlier delivery left them
Repeat(isOnline, payload) ==
    IF lastNote = Note(isOnline, payload)
    THEN [is |-> TRUE, before |-> <<_isHealthy, dagNetwork>>]
    ELSE [is |-> FALSE, before |-> None]

Deliver(isOnline, payload) ==
    /\ lastNote' = Note(isOnline, payload)
    /\ everOnline' = (everOnline \/ isOnline)
    /\ repeated' = Repeat(isOnline, payload)

\* variant: the online handler looks into the descriptor of the event and
\* takes the network for healthy only when the event carries one
handleOnlineReadsDescriptor(payload) ==
    /\ RunToCompletion
    /\ hpc = "idle"
    /\ _isHealthy' = (NetworkOf(payload) # Undefined)
    /\ hpc' = "online"
    /\ hpayload' = payload
    /\ Deliver(TRUE, payload)
    /\ UNCHANGED <<dagNetwork, readerVars, out, pass, age, probe, cpuUsage, executor>>

\* this._isHealthy = true;
handleNetworkThresholdOnline(payload) ==
    /\ RunToCompletion
    /\ hpc = "idle"
    /\ _isHealthy' = OnlineFlag
    /\ hpc' = "online"
    /\ hpayload' = payload
    /\ Deliver(TRUE, payload)
    /\ UNCHANGED <<dagNetwork, readerVars, out, pass, age, probe, cpuUsage, executor>>

\* this.dagNetwork = payload.network;   (online handler)
onlineAssignNetwork ==
    /\ hpc = "online"
    /\ dagNetwork' = AssignedNetwork(hpayload, dagNetwork)
    /\ hpc' = "idle"
    /\ hpayload' = None
    /\ UNCHANGED <<_isHealthy, lastNote, everOnline, repeated, readerVars, out, pass, age, probe, cpuUsage, executor>>

\* this._isHealthy = false;
handleNetworkThresholdOffline(payload) ==
    /\ RunToCompletion
    /\ hpc = "idle"
    /\ _isHealthy' = OfflineFlag
    /\ hpc' = "offline"
    /\ hpayload' = payload
    /\ Deliver(FALSE, payload)
    /\ UNCHANGED <<dagNetwork, readerVars, out, pass, age, probe, cpuUsage, executor>>

\* this.dagNetwork = payload.network;   (offline handler)
offlineAssignNetwork ==
    /\ hpc = "offline"
    /\ dagNetwork' = AssignedNetwork(hpayload, dagNetwork)
    /\ hpc' = "idle"
    /\ hpayload' = None
    /\ UNCHANGED <<_isHealthy, lastNote, everOnline, repeated, readerVars, out, pass, age, probe, cpuUsage, executor>>

----------------------------------------------------------------------------
(* DagHealthIndicator.isHealthy(). *)

\* HealthIndicator.getStatus(key, isHealthy, data):
\*   { [key]: { status: isHealthy ? 'up' : 'down', ...data } }
getStatus(key, isHealthy, data) ==
    key :> ([status |-> IF isHealthy THEN "up" ELSE "down"] @@ data)

\* variant: the error is raised without its causes
EmptyHealthCheckError(message, causes) ==
    [name |-> "HealthCheckError", message |-> message, causes |-> [x \in {} |-> 0]]

\* new HealthCheckError(message, causes)
HealthCheckError(message, causes) ==
    [name |-> "HealthCheckError", message |-> message, causes |-> causes]

\* the settled promise an async function gives its caller
Fulfilled(value) == [status |-> "fulfilled", value |-> value]
Rejected(reason) == [status |-> "rejected", reason |-> reason]

\* variant: isHealthy() returns the result whatever the flag
NeverThrows(flag, result) == Fulfilled(result)

\* if (this._isHealthy) return result; throw new HealthCheckError(...)
isHealthySettled(flag, result) ==
    IF flag THEN Fulfilled(result)
    ELSE Rejected(HealthCheckError("Dagcheck failed", result))

\* the history an isHealthy() call starts from: the last notification,
\* whether any online notification has been delivered yet, and whether the
\* last notification repeated the one before it
Context == [last |-> lastNote, online |-> everOnline, rep |-> repeated]

\* a direct caller enters isHealthy(); the first argument of getStatus that
\* reads the indicator, this._isHealthy, is evaluated
isHealthy ==
    /\ RunToCompletion
    /\ rpc = "idle"
    /\ rflag' = _isHealthy
    /\ rpc' = "getStatus"
    /\ rfor' = "direct"
    /\ rctx' = Context
    /\ UNCHANGED <<dagVars, rresult, out, pass, age, probe, cpuUsage, executor>>

\* variant: building the result consumes the stored network
isHealthyConsumesNetwork ==
    /\ rpc = "getStatus"
    /\ rresult' = getStatus("dag", rflag, [network |-> dagNetwork])
    /\ rpc' = "branch"
    /\ dagNetwork' = EmptyArray
    /\ UNCHANGED <<_isHealthy, hpc, hpayload, lastNote, everOnline, repeated,
                   rflag, rfor, rctx, out, pass, age, probe, cpuUsage, executor>>

\* const result = this.getStatus('dag', <flag>, { network: this.dagNetwork });
isHealthyGetStatus ==
    /\ rpc = "getStatus"
    /\ rresult' = getStatus("dag", rflag, [network |-> dagNetwork])
    /\ rpc' = "branch"
    /\ UNCHANGED <<dagVars, rflag, rfor, rctx, out, pass, age, probe, cpuUsage, executor>>

\* if (this._isHealthy) { return result; } throw ...   (direct caller)
isHealthyReturn ==
    /\ rpc = "branch"
    /\ rfor = "direct"
    /\ out' = [kind |-> "settled", promise |-> isHealthySettled(_isHealthy, rresult),
               ctx |-> rctx, at |-> lastNote]
    /\ rpc' = "idle"
    /\ rflag' = FALSE
    /\ rresult' = None
    /\ rctx' = None
    /\ UNCHANGED <<dagVars, rfor, pass, age, probe, cpuUsage, executor>>

----------------------------------------------------------------------------
(* HealthService.check(): the indicators it registers. *)

\* the five indicators the library provides, in registration order
LibraryIndicators == <<"storage", "memory_heap", "memory_rss", "mongoose", "redis">>

\* the six functions of the array passed to this.health.check, in order
Indicators == LibraryIndicators \o <<"dag">>

\* How a library indicator's promise can settle.  The library's indicators
\* report a failed check by rejecting with a HealthCheckError that carries
\* the down result ("down"): a threshold exceeded, a ping that timed out or
\* was refused.  checkStorage reads the disk usage of the path first and
\* does not catch a failure of that read, which then rejects its promise
\* with the plain error of the read ("fault").
Outcomes == {"up", "down", "fault"}

OutcomesOf(name) == IF name = "storage" THEN {"up", "down", "fault"} ELSE {"up", "down"}

\* one outcome for each library indicator, in registration order
OutcomeVectors ==
    {o \in [1..Len(LibraryIndicators) -> Outcomes] :
        \A i \in 1..Len(LibraryIndicators) : o[i] \in OutcomesOf(LibraryIndicators[i])}

NoData == [x \in {} |-> 0]

LibraryPromise(name, outcome) ==
    CASE outcome = "up" -> Fulfilled(getStatus(name, TRUE, NoData))
      [] outcome = "down" ->
            Rejected(HealthCheckError("check failed",
                                      getStatus(name, FALSE, [message |-> "failed"])))
      [] outcome = "fault" ->
            Rejected([name |-> "Error", message |-> "fault", causes |-> None])

----------------------------------------------------------------------------
(* The threshold indicators as check() calls them:                          *)
(*   this.disk.checkStorage('storage', { path: '/', thresholdPercent: 0.5 }) *)
(*   this.memory.checkHeap('memory_heap', 500 * 1024 * 1024)                *)
(*   this.memory.checkRSS('memory_rss', 500 * 1024 * 1024)                  *)
(* The library compares `thresholdPercent >= used / size` for the disk and  *)
(* fails when `threshold < usage` for the memory.                           *)

\* thresholdPercent: 0.5, as the fraction 1/2
ThresholdPercentNum == 1
ThresholdPercentDen == 2

\* 500 * 1024 * 1024
HeapUsedThreshold == 500 * 1024 * 1024
RssThreshold == 500 * 1024 * 1024

\* variant: the disk is healthy only strictly below the threshold
IsStorageHealthyStrict(used, size) ==
    size # 0 /\ ThresholdPercentNum * size > ThresholdPercentDen * used

\* isHealthy = options.thresholdPercent >= used / size
\* (a disk of size 0 gives 0 / 0, which no number is >= to)
IsStorageHealthy(used, size) ==
    size # 0 /\ ThresholdPercentNum * size >= ThresholdPercentDen * used

\* if (threshold < usage) throw ...; return this.getStatus(key, true)
IsMemoryHealthy(threshold, usage) == ~(threshold < usage)

\* new StorageExceededError(keyword, causes): a HealthCheckError
StorageExceededError(keyword, causes) ==
    HealthCheckError("Used " \o keyword \o " exceeded the set threshold", causes)

\* what a failed threshold check puts in the result
ExceededStatus(key, keyword) ==
    getStatus(key, FALSE, [message |-> "Used " \o keyword \o " exceeded the set threshold"])

\* DiskHealthIndicator.checkStorage(key, { path, thresholdPercent }), given
\* the free and total space the disk reports for the path
DiskCheckStorage(key, free, size) ==
    LET used == size - free
    IN  IF IsStorageHealthy(used, size)
        THEN Fulfilled(getStatus(key, TRUE, NoData))
        ELSE Rejected(StorageExceededError("disk storage", ExceededStatus(key, "disk storage")))

\* MemoryHealthIndicator.checkHeap(key, heapUsedThreshold), given heapUsed
MemoryCheckHeap(key, heapUsed) ==
    IF IsMemoryHealthy(HeapUsedThreshold, heapUsed)
    THEN Fulfilled(getStatus(key, TRUE, NoData))
    ELSE Rejected(StorageExceededError("heap", ExceededStatus(key, "heap")))

\* MemoryHealthIndicator.checkRSS(key, rssThreshold), given rss
MemoryCheckRSS(key, rss) ==
    IF IsMemoryHealthy(RssThreshold, rss)
    THEN Fulfilled(getStatus(key, TRUE, NoData))
    ELSE Rejected(StorageExceededError("rss", ExceededStatus(key, "rss")))

\* the disks and the memory readings the checks are run on
DiskSizes == 0..MaxDiskSize
HeapReadings == (HeapUsedThreshold - MaxMemoryDelta)..(HeapUsedThreshold + MaxMemoryDelta)
RssReadings == (RssThreshold - MaxMemoryDelta)..(RssThreshold + MaxMemoryDelta)

\* () => this.disk.checkStorage('storage', { path: '/', thresholdPercent: 0.5 })
checkStorage(free, size) ==
    /\ probe' = [kind |-> "storage", used |-> size - free, size |-> size,
                 promise |-> DiskCheckStorage("storage", free, size)]
    /\ UNCHANGED <<dagVars, readerVars, out, pass, age, cpuUsage, executor>>

\* () => this.memory.checkHeap('memory_heap', 500 * 1024 * 1024)
checkHeap(heapUsed) ==
    /\ probe' = [kind |-> "memory_heap", usage |-> heapUsed,
                 promise |-> MemoryCheckHeap("memory_heap", heapUsed)]
    /\ UNCHANGED <<dagVars, readerVars, out, pass, age, cpuUsage, executor>>

\* () => this.memory.checkRSS('memory_rss', 500 * 1024 * 1024)
checkRSS(rss) ==
    /\ probe' = [kind |-> "memory_rss", usage |-> rss,
                 promise |-> MemoryCheckRSS("memory_rss", rss)]
    /\ UNCHANGED <<dagVars, readerVars, out, pass, age, cpuUsage, executor>>

----------------------------------------------------------------------------
(* The ping indicators as check() calls them:                               *)
(*   this.mongoose.pingCheck('mongoose')                                    *)
(*   this.microservice.pingCheck<RedisOptions>('redis', this.redisOptions)  *)
(* Neither call passes a timeout, so each runs its round trip under the     *)
(* library's default timeout: the round trip races a timer, and whichever   *)
(* comes first settles the ping.                                            *)

\* the messages of the connection errors a round trip can end with
ConnectionErrors == {"connect ECONNREFUSED", "getaddrinfo ENOTFOUND"}

TimeoutMessage == "timeout of 1000ms exceeded"

\* new TimeoutError(timeout, causes): a HealthCheckError
TimeoutError(causes) == HealthCheckError(TimeoutMessage, causes)

\* MongooseHealthIndicator.pingCheck(key): a timeout is reported with its
\* message; any other failure of the round trip is reported as
\* `${key} is not available`, the result holding the status alone
MongoosePingCheck(key, how, error) ==
    CASE how = "answered" -> Fulfilled(getStatus(key, TRUE, NoData))
      [] how = "timeout" ->
            Rejected(TimeoutError(getStatus(key, FALSE, [message |-> TimeoutMessage])))
      [] how = "refused" ->
            Rejected(HealthCheckError(key \o " is not available",
                                      getStatus(key, FALSE, NoData)))

\* variant: the error of the connection is passed on as it is
MicroservicePingRethrows(key, how, error) ==
    CASE how = "answered" -> Fulfilled(getStatus(key, TRUE, NoData))
      [] how = "timeout" ->
            Rejected(TimeoutError(getStatus(key, FALSE, [message |-> TimeoutMessage])))
      [] how = "refused" ->
            Rejected([name |-> "Error", message |-> error, causes |-> None])

\* MicroserviceHealthIndicator.pingCheck(key, options): a timeout is reported
\* with its message, an error of the connection with the error's message
MicroservicePingCheck(key, how, error) ==
    CASE how = "answered" -> Fulfilled(getStatus(key, TRUE, NoData))
      [] how = "timeout" ->
            Rejected(TimeoutError(getStatus(key, FALSE, [message |-> TimeoutMessage])))
      [] how = "refused" ->
            Rejected(HealthCheckError(error, getStatus(key, FALSE, [message |-> error])))

PingIndicators == {"mongoose", "redis"}

\* the promise of the ping indicator registered under `name`
PingCheck(name, how, error) ==
    IF name = "mongoose" THEN MongoosePingCheck(name, how, error)
    ELSE MicroservicePingCheck(name, how, error)

\* a ping not invoked yet, one whose round trip is under way, and one that
\* has settled
PingIdle == [pc |-> "idle", how |-> "none", error |-> "none", at |-> 0, promise |-> None]
PingWaiting == [pc |-> "waiting", how |-> "none", error |-> "none", at |-> 0, promise |-> None]
PingSettled(name, how, error, at) ==
    [pc |-> "settled", how |-> how, error |-> error, at |-> at,
     promise |-> PingCheck(name, how, error)]

\* variant: the timer of the timeout never fires
TimerNeverFires(elapsed) == FALSE

\* the timer of the timeout has fired
TimerFires(elapsed) == elapsed >= TimeoutTicks

PingsRunning == probe # None /\ probe.kind = "pings"
Waiting(name) == PingsRunning /\ probe[name].pc = "waiting"
SettledPing(name) == PingsRunning /\ probe[name].pc = "settled"

\* Sequential executor: once the mongoose ping has settled the redis ping
\* is invoked, and its own timer starts.
InvokeNext(pings) ==
    IF executor = "sequential" /\ pings.mongoose.pc = "settled" /\ pings.redis.pc = "idle"
    THEN [pings EXCEPT !.redis = PingWaiting, !.elapsed = 0]
    ELSE pings

\* the ping indicators are called, as the array of check() calls them: both
\* at once under the concurrent executor, mongoose first under the
\* sequential one
pingChecks ==
    /\ IF PingsRunning THEN \A name \in PingIndicators : probe[name].pc = "settled" ELSE TRUE
    /\ probe' = [kind |-> "pings", elapsed |-> 0, cancelled |-> FALSE,
                 mongoose |-> PingWaiting,
                 redis |-> IF executor = "concurrent" THEN PingWaiting ELSE PingIdle]
    /\ UNCHANGED <<dagVars, readerVars, out, pass, age, cpuUsage, executor>>

\* the round trip completes before the timer fires
pingAnswers(name) ==
    /\ Waiting(name)
    /\ ~TimerFires(probe.elapsed)
    /\ probe' = InvokeNext([probe EXCEPT ![name] = PingSettled(name, "answered", "none", probe.elapsed)])
    /\ UNCHANGED <<dagVars, readerVars, out, pass, age, cpuUsage, executor>>

\* the round trip ends with an error of the connection before the timer fires
pingRefused(name, error) ==
    /\ Waiting(name)
    /\ ~TimerFires(probe.elapsed)
    /\ probe' = InvokeNext([probe EXCEPT ![name] = PingSettled(name, "refused", error, probe.elapsed)])
    /\ UNCHANGED <<dagVars, readerVars, out, pass, age, cpuUsage, executor>>

\* the timer fires while the round trip is still under way
pingTimesOut(name) ==
    /\ Waiting(name)
    /\ TimerFires(probe.elapsed)
    /\ probe' = InvokeNext([probe EXCEPT ![name] = PingSettled(name, "timeout", "none", probe.elapsed)])
    /\ UNCHANGED <<dagVars, readerVars, out, pass, age, cpuUsage, executor>>

\* variant: when the caller gives up, every pending ping is settled at once
\* as DOWN with a 'cancelled' detail
callerAborts ==
    /\ PingsRunning
    /\ ~probe.cancelled
    /\ \E name \in PingIndicators : probe[name].pc = "waiting"
    /\ probe' = [name \in DOMAIN probe |->
                    IF name \in PingIndicators /\ probe[name].pc = "waiting"
                    THEN [pc |-> "settled", how |-> "cancelled", error |-> "none",
                          at |-> probe.elapsed,
                          promise |-> Rejected(HealthCheckError("cancelled",
                              getStatus(name, FALSE, [message |-> "cancelled"])))]
                    ELSE IF name = "cancelled" THEN TRUE ELSE probe[name]]
    /\ UNCHANGED <<dagVars, readerVars, out, pass, age, cpuUsage, executor>>

\* The caller of check() stops waiting (its own timeout, or the client of
\* the request going away) while a ping is pending.  check() takes no
\* argument and hands no signal to the indicators: nothing is told to the
\* pings, which go on as before.
callerGivesUp ==
    /\ PingsRunning
    /\ ~probe.cancelled
    /\ \E name \in PingIndicators : probe[name].pc = "waiting"
    /\ probe' = [probe EXCEPT !.cancelled = TRUE]
    /\ UNCHANGED <<dagVars, readerVars, out, pass, age, cpuUsage, executor>>

\* time passes while a round trip is under way
pingTick ==
    /\ \E name \in PingIndicators : Waiting(name)
    /\ probe.elapsed < TimeoutTicks
    /\ probe' = [probe EXCEPT !.elapsed = @ + 1]
    /\ UNCHANGED <<dagVars, readerVars, out, pass, age, cpuUsage, executor>>

----------------------------------------------------------------------------
(* this.health.check(indicators): HealthCheckService of @nestjs/terminus,   *)
(* called at health.service.ts line 353.  The repository imports the        *)
(* library without pinning a version, and the library has run the           *)
(* indicators in two ways.  "concurrent": it awaits                         *)
(* Promise.allSettled(indicators.map(async h => h())), so all six functions *)
(* are invoked while the call is made.  "sequential": it awaits each        *)
(* function in a loop, so an indicator is invoked when the one before it    *)
(* has settled, and an error that is not a HealthCheckError ends the loop;  *)
(* the loop goes on after the last function in a later turn of the event    *)
(* loop than the one in which that function returned.                       *)
(* Either way it sorts the settled promises into results and errors and     *)
(* assembles the report.  Which one a build runs is fixed when it starts.   *)

Executors == {"concurrent", "sequential"}

isHealthCheckError(error) == error.name = "HealthCheckError"

IsFulfilled(p) == p.status = "fulfilled"
IsExpectedRejection(p) == p.status = "rejected" /\ isHealthCheckError(p.reason)
IsUnexpectedRejection(p) == p.status = "rejected" /\ ~isHealthCheckError(p.reason)

RECURSIVE Values(_)
Values(ps) ==
    IF ps = <<>> THEN <<>> ELSE <<Head(ps).value>> \o Values(Tail(ps))

RECURSIVE Causes(_)
Causes(ps) ==
    IF ps = <<>> THEN <<>> ELSE <<Head(ps).reason.causes>> \o Causes(Tail(ps))

\* results.push(res.value)
Results(settled) == Values(SelectSeq(settled, IsFulfilled))

\* errors.push(error.causes)
Errors(settled) == Causes(SelectSeq(settled, IsExpectedRejection))

\* if (!isHealthCheckError(error)) throw error
Unexpected(settled) == SelectSeq(settled, IsUnexpectedRejection)

\* Object.assign over the entries, in order: a later entry overrides
RECURSIVE getSummary(_)
getSummary(entries) ==
    IF entries = <<>> THEN NoData
    ELSE LET n == Len(entries)
         IN  entries[n] @@ getSummary(SubSeq(entries, 1, n - 1))

\* variant: the status looks at the results instead of the errors
StatusFromResults(results, errors) == IF Len(results) > 0 THEN "ok" ELSE "error"

\* status of the report: 'error' when any indicator's error was collected
ReportStatus(results, errors) == IF Len(errors) > 0 THEN "error" ELSE "ok"

getResult(results, errors) ==
    [status  |-> ReportStatus(results, errors),
     info    |-> getSummary(results),
     error   |-> getSummary(errors),
     details |-> getSummary(results \o errors)]

\* new ServiceUnavailableException(result): the failure that carries a report
ServiceUnavailableException(response) ==
    [name |-> "ServiceUnavailableException", message |-> "Service Unavailable Exception",
     response |-> response]

\* variant: the indicators are consumed one after the other and the pass
\* stops at the first one that failed
StopsAtFirstFailure(settled) ==
    LET failed == {i \in 1..Len(settled) : ~IsFulfilled(settled[i])}
        upTo   == IF failed = {} THEN Len(settled)
                  ELSE CHOOSE i \in failed : \A j \in failed : i <= j
        seen   == SubSeq(settled, 1, upTo)
    IN  IF Unexpected(seen) # <<>>
        THEN Rejected(Head(Unexpected(seen)).reason)
        ELSE LET result == getResult(Results(seen), Errors(seen))
             IN  IF result.status = "ok"
                 THEN Fulfilled(result)
                 ELSE Rejected(ServiceUnavailableException(result))

\* how the promise of this.health.check settles once every indicator has
HealthCheckServiceCheck(settled) ==
    IF Unexpected(settled) # <<>>
    THEN Rejected(Head(Unexpected(settled)).reason)
    ELSE LET result == getResult(Results(settled), Errors(settled))
         IN  IF result.status = "ok"
             THEN Fulfilled(result)
             ELSE Rejected(ServiceUnavailableException(result))

\* HealthService.check(): returns the promise of this.health.check
HealthServiceCheck(settled) == HealthCheckServiceCheck(settled)

\* new BadRequestException(error.message)
BadRequestException(message) ==
    [name |-> "BadRequestException", message |-> message]

\* HealthController.check(): try { return this.healthService.check(); }
\* catch(error) { throw new BadRequestException(error.message); }
\* The promise is returned without await, so the catch sees only an error
\* thrown while the call is made, and a rejection passes through unchanged.
HealthControllerCheck(call) ==
    IF call.status = "threw"
    THEN Rejected(BadRequestException(call.reason.message))
    ELSE call

----------------------------------------------------------------------------
(* HealthService.infos() and HealthController.infos().                      *)

\* What the operating system answers to infos(): the interface statistics of
\* osu.netstat.stats(), or its failure, and whether osu.drive.info() fails.
\* the per-interface counters osu.netstat.stats() answers with
InterfaceStats == [inputBytes : 0..MaxBytes, outputBytes : 0..MaxBytes]

\* the lists of at most MaxInterfaces interfaces
StatsLists == UNION {[1..n -> InterfaceStats] : n \in 0..MaxInterfaces}

\* osu.netstat.stats(): it answers with a list, or it fails
NetstatReadings ==
    {[ok |-> FALSE, stats |-> <<>>]} \cup {[ok |-> TRUE, stats |-> l] : l \in StatsLists}

\* os.cpus(): the speeds of the cores; the list is empty when no CPU
\* information is available
CpuLists == UNION {[1..n -> 1..MaxSpeed] : n \in 0..MaxCores}

\* an ordinary error: not a HealthCheckError
Error(name, message) == [name |-> name, message |-> message, causes |-> None]

\* how the evaluation of an expression ends
Returned(value) == [threw |-> FALSE, value |-> value]
Thrown(error) == [threw |-> TRUE, error |-> error]

\* .reduce((acc, curr) => acc + curr), of a list that is not empty
RECURSIVE SumSpeeds(_)
SumSpeeds(speeds) ==
    IF Len(speeds) = 1 THEN speeds[1]
    ELSE SumSpeeds(SubSeq(speeds, 1, Len(speeds) - 1)) + speeds[Len(speeds)]

\* variant: the usage is the difference of user and system time
getCpuUsageDifference(usage, cpus) ==
    IF cpus = <<>>
    THEN Thrown(Error("TypeError", "Reduce of empty array with no initial value"))
    ELSE Returned(
           [usage |-> [num |-> IF usage.user >= usage.system
                               THEN usage.user - usage.system
                               ELSE usage.system - usage.user,
                       den |-> Len(cpus) * 1000 * 1000],
            cpus  |-> Len(cpus),
            speed |-> [num |-> SumSpeeds(cpus), den |-> Len(cpus)]])

\* getCpuUsage(), given process.cpuUsage() and os.cpus():
\*   usage: (usage.user + usage.system) / (os.cpus().length * 1000 * 1000)
\*   cpus:  os.cpus().length
\*   speed: os.cpus().map(cpu => cpu.speed).reduce((acc, curr) => acc + curr)
\*            / os.cpus().length
\* The two quotients are kept as fractions num/den.  The reduce has no
\* initial value: on an empty list of cores it throws.
getCpuUsage(usage, cpus) ==
    IF cpus = <<>>
    THEN Thrown(Error("TypeError", "Reduce of empty array with no initial value"))
    ELSE Returned(
           [usage |-> [num |-> usage.user + usage.system,
                       den |-> Len(cpus) * 1000 * 1000],
            cpus  |-> Len(cpus),
            speed |-> [num |-> SumSpeeds(cpus), den |-> Len(cpus)]])

\* variant: the counters of the last interface only
LastStatsOnly(stats) ==
    IF stats = <<>> THEN [inputBytes |-> 0, outputBytes |-> 0]
    ELSE [inputBytes |-> stats[Len(stats)].inputBytes,
          outputBytes |-> stats[Len(stats)].outputBytes]

\* .reduce((acc, curr) => ({inputBytes: acc.inputBytes + curr.inputBytes, ...}),
\*         { inputBytes: 0, outputBytes: 0 })
RECURSIVE SumStats(_)
SumStats(stats) ==
    IF stats = <<>> THEN [inputBytes |-> 0, outputBytes |-> 0]
    ELSE LET n == Len(stats)
             acc == SumStats(SubSeq(stats, 1, n - 1))
         IN  [inputBytes |-> acc.inputBytes + stats[n].inputBytes,
              outputBytes |-> acc.outputBytes + stats[n].outputBytes]

\* try { network = (await osu.netstat.stats()).map(...).reduce(...) }
\* catch (error) { network = { inputBytes: 0, outputBytes: 0 } }
NetworkInfo(netstat) ==
    IF netstat.ok THEN SumStats(netstat.stats)
    ELSE [inputBytes |-> 0, outputBytes |-> 0]

\* What one infos() call has read: the network statistics, the provider that
\* failed if one did, and process.cpuUsage() and os.cpus() as getCpuUsage()
\* read them.  A reading not taken (yet) is None.
EmptySample == [netstat |-> None, failed |-> "none", cpuUsage |-> None, cpus |-> None]

\* HealthService.infos(), as a function of what the call read.  The failure
\* of the network statistics is caught.  The snapshot is one object literal
\* whose fields are evaluated in order: machine and arch are awaited, then
\* getCpuUsage() is called, then memory and drive are awaited; the first
\* that fails rejects the promise.  platform, release and uptime are
\* readings of the operating system passed on as they are.
HealthServiceInfos(sample) ==
    IF sample.failed \in {"machine", "arch"}
    THEN Rejected(Error("Error", sample.failed))
    ELSE LET cpu == getCpuUsage(sample.cpuUsage, sample.cpus)
         IN  IF cpu.threw THEN Rejected(cpu.error)
             ELSE IF sample.failed \in {"memory", "drive"}
             THEN Rejected(Error("Error", sample.failed))
             ELSE Fulfilled([platform |-> "info",
                             release |-> "info",
                             machine |-> "info",
                             arch    |-> "info",
                             uptime  |-> "info",
                             cpu     |-> cpu.value,
                             memory  |-> "info",
                             drive   |-> "info",
                             network |-> NetworkInfo(sample.netstat)])

\* variant: the controller lets the failure of the service through
HealthControllerInfosRethrows(call) == call

\* HealthController.infos(): try { return await this.healthService.infos(); }
\* catch(error) { throw new BadRequestException(error.message); }
HealthControllerInfos(call) ==
    IF call.status = "rejected"
    THEN Rejected(BadRequestException(call.reason.message))
    ELSE call

----------------------------------------------------------------------------
(* A metrics request, await by await.  Up to two requests are under way at  *)
(* a time, one in each slot of `probe`.                                      *)

Slots == {"a", "b"}
Other(slot) == IF slot = "a" THEN "b" ELSE "a"

IdleCall == [pc |-> "idle"]

\* the CPU figures of an answer, None when the request failed
CpuOf(promise) == IF promise.status = "fulfilled" THEN promise.value.cpu ELSE None

\* the requests of the route: the two slots, and as history the last answer
\* given (its status and CPU figures) with the time elapsed since, the last
\* result of getCpuUsage(), and which slot holds the request made first
NoRequests ==
    [kind |-> "infos", a |-> IdleCall, b |-> IdleCall,
     last |-> None, lastCpu |-> None, earlier |-> "none"]

Requests == IF probe.kind = "infos" THEN probe ELSE NoRequests

\* the request in `slot` is at the await `pc`
Awaiting(slot, pc) == probe.kind = "infos" /\ probe[slot].pc = pc

\* the awaited provider failed: the promise of HealthService.infos() is
\* rejected, and the controller's `return await` is next
ProviderFailed(slot, provider) ==
    LET sample == [probe[slot].sample EXCEPT !.failed = provider]
    IN  [probe EXCEPT ![slot].sample = sample,
                      ![slot].service = HealthServiceInfos(sample),
                      ![slot].pc = "return"]

\* variant: a request that runs the health check as well
infosRunsCheck(slot) ==
    /\ RunToCompletion
    /\ Requests[slot].pc \in {"idle", "answered"}
    /\ probe' = [Requests EXCEPT
                   ![slot] = [pc |-> "netstat", sample |-> EmptySample,
                              before |-> Requests.last, prior |-> None,
                              service |-> None, promise |-> None],
                   !.earlier = IF Requests[Other(slot)].pc = "idle"
                               THEN "none" ELSE Other(slot)]
    /\ pass' = [pass EXCEPT !.invoked = Indicators, !.reads = <<_isHealthy>>]
    /\ UNCHANGED <<dagVars, readerVars, out, age, cpuUsage, executor>>

\* HealthController.infos() -> HealthService.infos(), up to
\* `await osu.netstat.stats()`.  `before` remembers the last answer the
\* route gave before this request.
infos(slot) ==
    /\ RunToCompletion
    /\ Requests[slot].pc \in {"idle", "answered"}
    /\ probe' = [Requests EXCEPT
                   ![slot] = [pc |-> "netstat", sample |-> EmptySample,
                              before |-> Requests.last, prior |-> None,
                              service |-> None, promise |-> None],
                   !.earlier = IF Requests[Other(slot)].pc = "idle"
                               THEN "none" ELSE Other(slot)]
    /\ UNCHANGED <<dagVars, readerVars, out, pass, age, cpuUsage, executor>>

\* osu.netstat.stats() has answered or failed; up to `await osu.os.oos()`
infosNetstat(slot, netstat) ==
    /\ RunToCompletion
    /\ Awaiting(slot, "netstat")
    /\ probe' = [probe EXCEPT ![slot].sample.netstat = netstat,
                              ![slot].pc = "machine"]
    /\ UNCHANGED <<dagVars, readerVars, out, pass, age, cpuUsage, executor>>

\* osu.os.oos() has answered or failed; up to `await osu.os.arch()`
infosMachine(slot, ok) ==
    /\ RunToCompletion
    /\ Awaiting(slot, "machine")
    /\ probe' = IF ok THEN [probe EXCEPT ![slot].pc = "arch"]
                ELSE ProviderFailed(slot, "machine")
    /\ UNCHANGED <<dagVars, readerVars, out, pass, age, cpuUsage, executor>>

\* osu.os.arch() has answered or failed; when it answered, getCpuUsage()
\* reads process.cpuUsage() and os.cpus() in this turn, and the request goes
\* on up to `await osu.mem.info()`.  `prior` remembers the result of the
\* getCpuUsage() call before this one.
infosArch(slot, ok, cpus) ==
    /\ RunToCompletion
    /\ Awaiting(slot, "arch")
    /\ probe' =
         IF ~ok THEN ProviderFailed(slot, "arch")
         ELSE LET sample == [probe[slot].sample EXCEPT !.cpuUsage = cpuUsage,
                                                       !.cpus = cpus]
                  cpu == getCpuUsage(cpuUsage, cpus)
              IN  IF cpu.threw
                  THEN [probe EXCEPT ![slot].sample = sample,
                                     ![slot].service = HealthServiceInfos(sample),
                                     ![slot].pc = "return"]
                  ELSE [probe EXCEPT ![slot].sample = sample,
                                     ![slot].prior = probe.lastCpu,
                                     ![slot].pc = "memory",
                                     !.lastCpu = cpu.value]
    /\ UNCHANGED <<dagVars, readerVars, out, pass, age, cpuUsage, executor>>

\* osu.mem.info() has answered or failed; up to `await osu.drive.info()`
infosMemory(slot, ok) ==
    /\ RunToCompletion
    /\ Awaiting(slot, "memory")
    /\ probe' = IF ok THEN [probe EXCEPT ![slot].pc = "drive"]
                ELSE ProviderFailed(slot, "memory")
    /\ UNCHANGED <<dagVars, readerVars, out, pass, age, cpuUsage, executor>>

\* osu.drive.info() has answered or failed; when it answered, the snapshot
\* is returned and the promise of HealthService.infos() is fulfilled
infosDrive(slot, ok) ==
    /\ RunToCompletion
    /\ Awaiting(slot, "drive")
    /\ probe' = IF ok
                THEN [probe EXCEPT
                        ![slot].service = HealthServiceInfos(probe[slot].sample),
                        ![slot].pc = "return"]
                ELSE ProviderFailed(slot, "drive")
    /\ UNCHANGED <<dagVars, readerVars, out, pass, age, cpuUsage, executor>>

\* the controller's `return await` resumes with the outcome of the service:
\* the request is answered
infosReturn(slot) ==
    /\ RunToCompletion
    /\ Awaiting(slot, "return")
    /\ LET promise == HealthControllerInfos(probe[slot].service)
       IN  probe' = [probe EXCEPT ![slot].promise = promise,
                                  ![slot].pc = "answered",
                                  !.last = [status |-> promise.status,
                                            cpu |-> CpuOf(promise), age |-> 0]]
    /\ UNCHANGED <<dagVars, readerVars, out, pass, age, cpuUsage, executor>>

\* one unit of time passes after the last answer of the route
infosTick ==
    /\ probe.kind = "infos"
    /\ probe.last # None
    /\ probe.last.age < CacheTTL
    /\ probe' = [probe EXCEPT !.last.age = @ + 1]
    /\ UNCHANGED <<dagVars, readerVars, out, pass, age, cpuUsage, executor>>

\* the process uses CPU time, in user or in system mode: the counters of
\* process.cpuUsage() only grow
cpuRuns ==
    /\ \E mode \in {"user", "system"} :
          /\ cpuUsage[mode] < MaxCpuTime
          /\ cpuUsage' = [cpuUsage EXCEPT ![mode] = @ + 1]
    /\ UNCHANGED <<dagVars, readerVars, out, pass, age, probe, executor>>

----------------------------------------------------------------------------
(* Time and the response cache of the routes.                               *)

\* the report of the last call is one a cache of CacheTTL would still serve
LiveReport ==
    /\ pass.pc = "done"
    /\ pass.result.status = "fulfilled"
    /\ age < CacheTTL

\* The entries the response cache of GET /health/check holds.  @CacheTTL only
\* attaches the number to the route; HealthModule.forRoot registers no cache
\* and no interceptor that would read it, and check() stores nothing: no
\* statement of the repository puts an entry there.
ResponseCache == {}

\* the report of the last call is older than CacheTTL
ExpiredReport ==
    /\ pass.pc = "done"
    /\ pass.result.status = "fulfilled"
    /\ age >= CacheTTL

----------------------------------------------------------------------------
(* A health check: HealthController.check() -> HealthService.check().       *)

\* the call as it stands when it is made: under the concurrent executor
\* all six indicator functions are invoked, in order, before anything is
\* awaited; under the sequential one the first alone
NewPass(live, expired, prior) ==
    [pc |-> IF executor = "concurrent" THEN "invoking" ELSE "running",
     invoked |-> IF executor = "concurrent" THEN Indicators ELSE <<Head(Indicators)>>,
     dag |-> None, ctx |-> None, at |-> None, reads |-> <<>>,
     live |-> live, expired |-> expired,
     settled |-> <<>>, result |-> None, prior |-> prior]

\* isHealthy() is entered for the call: it runs up to its first read
EntersIsHealthy ==
    /\ rflag' = _isHealthy
    /\ rpc' = "getStatus"
    /\ rfor' = "check"
    /\ rctx' = Context

\* the call settles with the report assembled from the settled promises
Assembled(call, settled) ==
    [call EXCEPT !.pc = "done",
                 !.settled = settled,
                 !.result = HealthControllerCheck(HealthServiceCheck(settled))]

\* a call as it goes on beside a later one: what it has invoked and what has
\* settled; the history of the latest call is not kept for it
Earlier(call) ==
    [call EXCEPT !.prior = <<>>, !.ctx = None, !.at = None, !.reads = <<>>,
                 !.live = FALSE, !.expired = FALSE]

\* a call that still awaits its indicators
InProgress(call) == call.pc # "done"

\* of the calls made before the latest one, those still in progress, oldest
\* first
Unsettled == SelectSeq(pass.prior, InProgress)

\* The call is made.  Under the concurrent executor the last of the six
\* functions, isHealthy(), runs here up to its first read.  Calls made
\* earlier that are still in progress go on beside it, in `prior`.
check ==
    /\ RunToCompletion
    /\ pass.pc \in {"idle", "done"}
    /\ Len(Unsettled) < MaxOverlap
    /\ pass' = NewPass(LiveReport, ExpiredReport, Unsettled)
    /\ IF executor = "concurrent" THEN EntersIsHealthy
       ELSE UNCHANGED <<rflag, rpc, rfor, rctx>>
    /\ age' = 0
    /\ UNCHANGED <<dagVars, rresult, out, probe, cpuUsage, executor>>

\* the promises the six indicator functions returned, in registration order
Settled(outcomes, dag) ==
    [i \in 1..Len(LibraryIndicators) |->
        LibraryPromise(LibraryIndicators[i], outcomes[i])] \o <<dag>>

\* Sequential executor, one turn of the loop of a call made before the
\* latest one: the library indicator awaited settles in its outcome of
\* `outcomes`.  An error that is not a HealthCheckError ends the call.
\* Otherwise the next function is invoked; when that is isHealthy(), it runs
\* to its return in this turn (it awaits nothing), and the loop awaits its
\* promise.
LoopStep(call, outcomes) ==
    LET i == Len(call.settled) + 1
        promise == LibraryPromise(LibraryIndicators[i], outcomes[i])
        settled == Append(call.settled, promise)
        next == [call EXCEPT !.settled = settled,
                             !.invoked = Append(@, Indicators[i + 1])]
        dag == isHealthySettled(_isHealthy,
                   getStatus("dag", _isHealthy, [network |-> dagNetwork]))
    IN  IF IsUnexpectedRejection(promise) THEN Assembled(call, settled)
        ELSE IF i < Len(LibraryIndicators) THEN next
        ELSE [next EXCEPT !.pc = "pending", !.dag = dag]

\* the promises of a call whose indicators have all settled: under the
\* concurrent executor the five library promises settle in `outcomes`, under
\* the sequential one they have settled in turn; the promise of isHealthy()
\* is the last
AllSettled(call, outcomes, dag) ==
    IF executor = "concurrent" THEN Settled(outcomes, dag)
    ELSE Append(call.settled, dag)

\* Sequential executor: the library indicator awaited settles, in its
\* outcome of `outcomes`.  An error that is not a HealthCheckError is thrown
\* further and the call fails with it, the indicators after it never being
\* invoked.  Otherwise the next indicator is invoked; when that is the dag
\* indicator, isHealthy() runs here up to its first read.
indicatorSettled(outcomes) ==
    /\ RunToCompletion
    /\ pass.pc = "running"
    /\ LET i == Len(pass.settled) + 1
           promise == LibraryPromise(LibraryIndicators[i], outcomes[i])
           settled == Append(pass.settled, promise)
           next == [pass EXCEPT !.settled = settled,
                                !.invoked = Append(@, Indicators[i + 1])]
       IN  IF IsUnexpectedRejection(promise)
           THEN /\ pass' = Assembled(pass, settled)
                /\ age' = 0
                /\ UNCHANGED <<rflag, rpc, rfor, rctx>>
           ELSE IF i < Len(LibraryIndicators)
           THEN /\ pass' = next
                /\ UNCHANGED <<age, rflag, rpc, rfor, rctx>>
           ELSE /\ pass' = [next EXCEPT !.pc = "invoking"]
                /\ EntersIsHealthy
                /\ UNCHANGED age
    /\ UNCHANGED <<dagVars, rresult, out, probe, cpuUsage, executor>>

\* if (this._isHealthy) { return result; } throw ...   (called by check())
\* The executor awaits its promise: under the concurrent executor together
\* with the other five, under the sequential one as the last of the loop.
\* Either way the report is assembled in a later turn.
isHealthyReturnToCheck ==
    /\ rpc = "branch"
    /\ rfor = "check"
    /\ pass' = [pass EXCEPT !.pc = "pending",
                            !.dag = isHealthySettled(_isHealthy, rresult),
                            !.ctx = rctx,
                            !.at = lastNote,
                            !.reads = <<rflag, _isHealthy>>]
    /\ rpc' = "idle"
    /\ rflag' = FALSE
    /\ rresult' = None
    /\ rctx' = None
    /\ UNCHANGED <<dagVars, rfor, out, age, probe, cpuUsage, executor>>

\* variant: the dag indicator is asked again when the report is assembled
checkSettledAsksAgain(outcomes) ==
    LET again == isHealthySettled(_isHealthy,
                     getStatus("dag", _isHealthy, [network |-> dagNetwork]))
    IN  /\ RunToCompletion
        /\ pass.pc = "pending"
        /\ pass' = Assembled(pass, AllSettled(pass, outcomes, again))
        /\ age' = 0
        /\ UNCHANGED <<dagVars, readerVars, out, probe, cpuUsage, executor>>

\* Every indicator of the call has settled; the code after the executor's
\* await runs, the report is assembled and the call settles.  Under the
\* concurrent executor the five library promises settle here, each in its
\* outcome of `outcomes`, isHealthy() having returned when the call was made.
\* Under the sequential one they have settled in turn and isHealthy() has
\* returned in an earlier turn of the event loop.
checkSettled(outcomes) ==
    /\ RunToCompletion
    /\ pass.pc = "pending"
    /\ pass' = Assembled(pass, AllSettled(pass, outcomes, pass.dag))
    /\ age' = 0
    /\ UNCHANGED <<dagVars, readerVars, out, probe, cpuUsage, executor>>

\* A request arrives while the pass of the latest call is still awaiting its
\* indicators.  The controller calls the service for it as for any request:
\* the indicator functions are invoked again.  The calls still in progress
\* are kept in `prior` until they settle.
checkWhilePending ==
    /\ RunToCompletion
    /\ pass.pc \in {"pending", "running"}
    /\ Len(Unsettled) + 1 < MaxOverlap
    /\ pass' = NewPass(FALSE, FALSE, Append(Unsettled, Earlier(pass)))
    /\ IF executor = "concurrent" THEN EntersIsHealthy
       ELSE UNCHANGED <<rflag, rpc, rfor, rctx>>
    /\ age' = 0
    /\ UNCHANGED <<dagVars, rresult, out, probe, cpuUsage, executor>>

\* Every indicator of one of the earlier calls has settled, and that call
\* settles.
priorSettled(outcomes) ==
    /\ RunToCompletion
    /\ \E k \in DOMAIN pass.prior :
          /\ pass.prior[k].pc = "pending"
          /\ pass' = [pass EXCEPT
                        !.prior[k] = Assembled(@, AllSettled(@, outcomes, @.dag))]
    /\ UNCHANGED <<dagVars, readerVars, out, age, probe, cpuUsage, executor>>

\* Sequential executor: the library indicator one of the earlier calls awaits
\* settles.
priorIndicatorSettled(outcomes) ==
    /\ RunToCompletion
    /\ \E k \in DOMAIN pass.prior :
          /\ pass.prior[k].pc = "running"
          /\ pass' = [pass EXCEPT !.prior[k] = LoopStep(@, outcomes)]
    /\ UNCHANGED <<dagVars, readerVars, out, age, probe, cpuUsage, executor>>

\* one unit of time passes after the last call finished
Tick ==
    /\ pass.pc = "done"
    /\ age < CacheTTL
    /\ age' = age + 1
    /\ UNCHANGED <<dagVars, readerVars, out, pass, probe, cpuUsage, executor>>

----------------------------------------------------------------------------
Init ==
    /\ _isHealthy = InitialIsHealthy
    /\ dagNetwork = InitialDagNetwork
    /\ hpc = "idle"
    /\ hpayload = None
    /\ rpc = "idle"
    /\ rflag = FALSE
    /\ rresult = None
    /\ rfor = "direct"
    /\ rctx = None
    /\ out = None
    /\ lastNote = None
    /\ everOnline = FALSE
    /\ pass = [pc |-> "idle", invoked |-> <<>>, dag |-> None, ctx |-> None,
               at |-> None, reads |-> <<>>, live |-> FALSE, expired |-> FALSE,
               settled |-> <<>>, result |-> None, prior |-> <<>>]
    /\ age = 0
    /\ repeated = [is |-> FALSE, before |-> None]
    /\ probe = None
    /\ cpuUsage = [user |-> 0, system |-> 0]
    /\ executor \in Executors

\* the indicator on its own: notifications and direct isHealthy() calls
NextDag ==
    \/ \E payload \in DagPayloads : handleNetworkThresholdOnline(payload)
    \/ onlineAssignNetwork
    \/ \E payload \in DagPayloads : handleNetworkThresholdOffline(payload)
    \/ offlineAssignNetwork
    \/ isHealthy
    \/ isHealthyGetStatus
    \/ isHealthyReturn

SpecDag == Init /\ [][NextDag]_vars

\* the service: notifications and health checks
Next ==
    \/ \E payload \in CheckPayloads : handleNetworkThresholdOnline(payload)
    \/ onlineAssignNetwork
    \/ \E payload \in CheckPayloads : handleNetworkThresholdOffline(payload)
    \/ offlineAssignNetwork
    \/ check
    \/ isHealthyGetStatus
    \/ isHealthyReturnToCheck
    \/ \E outcomes \in OutcomeVectors : checkSettled(outcomes)
    \/ \E outcomes \in OutcomeVectors : indicatorSettled(outcomes)
    \/ Tick

Spec == Init /\ [][Next]_vars

\* outcomes of the library indicators while requests overlap: all UP
BurstOutcomes ==
    {o \in OutcomeVectors : \A i \in 1..Len(LibraryIndicators) : o[i] = "up"}

\* the service under overlapping requests
NextBurst ==
    \/ \E payload \in CheckPayloads : handleNetworkThresholdOnline(payload)
    \/ onlineAssignNetwork
    \/ \E payload \in CheckPayloads : handleNetworkThresholdOffline(payload)
    \/ offlineAssignNetwork
    \/ check
    \/ checkWhilePending
    \/ isHealthyGetStatus
    \/ isHealthyReturnToCheck
    \/ \E outcomes \in BurstOutcomes : checkSettled(outcomes)
    \/ \E outcomes \in BurstOutcomes : indicatorSettled(outcomes)
    \/ \E outcomes \in BurstOutcomes : priorSettled(outcomes)
    \/ \E outcomes \in BurstOutcomes : priorIndicatorSettled(outcomes)
    \/ Tick

SpecBurst == Init /\ [][NextBurst]_vars

\* the threshold indicators on their own, over disks and memory readings
NextThreshold ==
    \/ \E size \in DiskSizes : \E free \in 0..size : checkStorage(free, size)
    \/ \E heapUsed \in HeapReadings : checkHeap(heapUsed)
    \/ \E rss \in RssReadings : checkRSS(rss)

SpecThreshold == Init /\ [][NextThreshold]_vars

\* the ping indicators on their own
NextPing ==
    \/ pingChecks
    \/ \E name \in PingIndicators : pingAnswers(name)
    \/ \E name \in PingIndicators : \E error \in ConnectionErrors : pingRefused(name, error)
    \/ \E name \in PingIndicators : pingTimesOut(name)
    \/ pingTick
    \/ callerGivesUp

\* Time passes and a timer that is due fires: the event loop runs the
\* callback of a timer once its delay has passed.  Nothing obliges the
\* dependency to answer or to refuse.
SpecPing ==
    /\ Init
    /\ [][NextPing]_vars
    /\ WF_vars(pingTick)
    /\ \A name \in PingIndicators : WF_vars(pingTimesOut(name))

\* no metrics request has been made
NoRequestYet == probe = None

\* every library indicator reports UP
FrameOutcomes == {o \in OutcomeVectors : \A i \in 1..Len(LibraryIndicators) : o[i] = "up"}

\* the readings of a metrics request while notifications arrive: no
\* interface statistics, one core, every other provider answers
FrameNetstat == {r \in NetstatReadings : ~r.ok}
FrameCpus == {l \in CpuLists : Len(l) = 1 /\ l[1] = 1}

\* every operation that can run while notifications arrive: direct
\* isHealthy() calls, health checks and infos()
NextFrame ==
    \/ \E payload \in CheckPayloads : handleNetworkThresholdOnline(payload)
    \/ onlineAssignNetwork
    \/ \E payload \in CheckPayloads : handleNetworkThresholdOffline(payload)
    \/ offlineAssignNetwork
    \/ isHealthy
    \/ isHealthyGetStatus
    \/ isHealthyReturn
    \/ check
    \/ isHealthyReturnToCheck
    \/ \E outcomes \in FrameOutcomes : checkSettled(outcomes)
    \/ \E outcomes \in FrameOutcomes : indicatorSettled(outcomes)
    \/ NoRequestYet /\ infos("a")
    \/ \E netstat \in FrameNetstat : infosNetstat("a", netstat)
    \/ infosMachine("a", TRUE)
    \/ \E cpus \in FrameCpus : infosArch("a", TRUE, cpus)
    \/ infosMemory("a", TRUE)
    \/ infosDrive("a", TRUE)
    \/ infosReturn("a")

SpecFrame == Init /\ [][NextFrame]_vars

\* the lists of cores of at most one core
InfosCpus == {l \in CpuLists : Len(l) <= 1}

\* the metrics endpoint on its own: one request at a time over every
\* reading of the operating system
NextInfos ==
    \/ infos("a")
    \/ \E netstat \in NetstatReadings : infosNetstat("a", netstat)
    \/ \E ok \in BOOLEAN : infosMachine("a", ok)
    \/ \E ok \in BOOLEAN, cpus \in InfosCpus : infosArch("a", ok, cpus)
    \/ \E ok \in BOOLEAN : infosMemory("a", ok)
    \/ \E ok \in BOOLEAN : infosDrive("a", ok)
    \/ infosReturn("a")

SpecInfos == Init /\ [][NextInfos]_vars

\* the metrics endpoint while the process uses CPU time and time passes: two
\* requests may overlap
NextCpu ==
    \/ \E slot \in Slots : infos(slot)
    \/ \E slot \in Slots, netstat \in FrameNetstat : infosNetstat(slot, netstat)
    \/ \E slot \in Slots : infosMachine(slot, TRUE)
    \/ \E slot \in Slots, cpus \in FrameCpus : infosArch(slot, TRUE, cpus)
    \/ \E slot \in Slots : infosMemory(slot, TRUE)
    \/ \E slot \in Slots : infosDrive(slot, TRUE)
    \/ \E slot \in Slots : infosReturn(slot)
    \/ infosTick
    \/ cpuRuns

SpecCpu == Init /\ [][NextCpu]_vars

----------------------------------------------------------------------------
(* What the properties below speak of. *)

\* the IndicatorResult of the DAG indicator, written out
DagResult(status, network) == [dag |-> [status |-> status, network |-> network]]

\* the (status, payload) pair a notification stands for; before any
\* notification, the pair of the initial fields
PairOf(note) ==
    IF note = None THEN <<"down", EmptyArray>>
    ELSE <<IF note.isOnline THEN "up" ELSE "down", note.network>>

\* the (status, payload) pair the indicator's fields stand for once the
\* handler of a notification has ended, by return or by throwing
LeftBy(note) ==
    IF note = None THEN <<"down", EmptyArray>>
    ELSE <<IF note.isOnline THEN "up" ELSE "down", note.left>>

\* the IndicatorResult a settled isHealthy() promise carries: its value when
\* fulfilled, the cause of its error when rejected
CarriedResult(promise) ==
    IF promise.status = "fulfilled" THEN promise.value ELSE promise.reason.causes

\* the (status, payload) pair a settled isHealthy() promise shows
ResultPair(promise) ==
    <<CarriedResult(promise)["dag"].status, CarriedResult(promise)["dag"].network>>

\* the check-failed error isHealthy() raises with `network` as the payload
CheckFailed(network) ==
    Rejected([name |-> "HealthCheckError", message |-> "Dagcheck failed",
              causes |-> DagResult("down", network)])

----------------------------------------------------------------------------
(* C5: an isHealthy() call on an indicator that has received no            *)
(* notification fails with the check-failed error whose result is name     *)
(* 'dag', status DOWN, empty network payload; and every isHealthy() call    *)
(* made before the first online notification fails with status DOWN.        *)
C5_InitiallyDown ==
    out.kind = "settled" =>
        /\ out.ctx.last = None => out.promise = CheckFailed(EmptyArray)
        /\ ~out.ctx.online =>
              /\ out.promise.status = "rejected"
              /\ isHealthCheckError(out.promise.reason)
              /\ DOMAIN out.promise.reason.causes = {"dag"}
              /\ out.promise.reason.causes["dag"].status = "down"

\* an isHealthy() call made before any notification has failed
C5_Witness ==
    /\ out.kind = "settled"
    /\ out.ctx.last = None
    /\ out.promise.status = "rejected"

(* C6: after an online notification with descriptor X, isHealthy() returns  *)
(* the result name 'dag', status UP, network X; after an offline            *)
(* notification with descriptor Y it fails with check-failed, and the       *)
(* result in the error is status DOWN, network Y.  (A notification with a   *)
(* descriptor is one whose payload is an object; X and Y may be undefined.) *)
C6_OnlineThenOffline ==
    (out.kind = "settled" /\ out.ctx.last # None /\ ~out.ctx.last.threw) =>
        IF out.ctx.last.isOnline
        THEN out.promise = Fulfilled(DagResult("up", out.ctx.last.network))
        ELSE out.promise = CheckFailed(out.ctx.last.network)

\* an online notification was delivered, then an offline one with descriptor
\* 2, and the isHealthy() call that followed failed with network 2
C6_Witness ==
    /\ out.kind = "settled"
    /\ out.ctx.online
    /\ out.ctx.last = Delivered(FALSE, 2)
    /\ out.promise.status = "rejected"
    /\ out.promise.reason.causes["dag"].network = 2

(* C7: last write wins.  After any sequence of notifications, whenever no   *)
(* handler is in the middle of its statements, (_isHealthy, dagNetwork) is  *)
(* (isOnline, descriptor) of the most recently delivered notification that  *)
(* the claim speaks of, one carrying a descriptor, whatever was delivered   *)
(* before it; and an isHealthy() call made after it reports exactly that    *)
(* pair.                                                                    *)
C7_LastWriteWins ==
    /\ (hpc = "idle" /\ lastNote # None /\ ~lastNote.threw) =>
          /\ _isHealthy = lastNote.isOnline
          /\ dagNetwork = lastNote.network
    /\ (out.kind = "settled" /\ out.ctx.last # None /\ ~out.ctx.last.threw) =>
          ResultPair(out.promise) = PairOf(out.ctx.last)

\* an offline notification with descriptor 2 was delivered after an online
\* one; the indicator holds (false, 2) and the isHealthy() call that followed
\* reported (DOWN, 2)
C7_Witness ==
    /\ hpc = "idle"
    /\ everOnline
    /\ lastNote = Delivered(FALSE, 2)
    /\ ~_isHealthy
    /\ dagNetwork = 2
    /\ out.kind = "settled"
    /\ out.ctx.last = lastNote
    /\ ResultPair(out.promise) = <<"down", 2>>

\* For every event, one emitted without a payload included: the flag is that
\* of the last notification; the network is the descriptor of the last
\* notification when that carried a payload, and otherwise the network held
\* before it.
LastHandlerWins ==
    /\ (hpc = "idle" /\ lastNote # None) =>
          /\ _isHealthy = lastNote.isOnline
          /\ dagNetwork = lastNote.left
          /\ ~lastNote.threw => dagNetwork = lastNote.network
    /\ out.kind = "settled" => ResultPair(out.promise) = LeftBy(out.ctx.last)

(* C8: atomic snapshot.  No notification is delivered between the first     *)
(* read of an isHealthy() call and its return, and the (status, network)    *)
(* pair the call shows is the pair of the one notification, carrying a      *)
(* descriptor, that was the last delivered throughout the call (the initial *)
(* pair when there was none): never the flag of one notification with the   *)
(* payload of another.                                                      *)
C8_AtomicSnapshot ==
    out.kind = "settled" =>
        /\ out.at = out.ctx.last
        /\ (out.at = None \/ ~out.at.threw) => ResultPair(out.promise) = PairOf(out.at)
        /\ (out.promise.status = "fulfilled") = (ResultPair(out.promise)[1] = "up")

\* an isHealthy() call made after the online notification with descriptor 1
\* has shown (UP, 1), and the handler of an offline notification with
\* descriptor 2 that arrived next has assigned the flag and not yet the
\* network
C8_Witness ==
    /\ out.kind = "settled"
    /\ out.at = Delivered(TRUE, 1)
    /\ ResultPair(out.promise) = <<"up", 1>>
    /\ hpc = "offline"
    /\ lastNote = Delivered(FALSE, 2)
    /\ ~_isHealthy
    /\ dagNetwork = 1

\* For every event, one emitted without a payload included: no notification
\* is delivered between the first read of an isHealthy() call and its return,
\* and the call shows the fields as the handler of the last notification left
\* them.
ReadIsNotInterleaved ==
    out.kind = "settled" =>
        /\ out.at = out.ctx.last
        /\ ResultPair(out.promise) = LeftBy(out.at)
        /\ (out.promise.status = "fulfilled") = (ResultPair(out.promise)[1] = "up")

----------------------------------------------------------------------------
(* What the properties of a health check speak of. *)

IndicatorNames == {Indicators[i] : i \in 1..Len(Indicators)}

\* the indicators whose promise was rejected with the check-failed error
Down(settled) ==
    {Indicators[i] : i \in {j \in 1..Len(settled) : IsExpectedRejection(settled[j])}}

\* the indicators whose promise was rejected with any other error
Faulted(settled) ==
    {Indicators[i] : i \in {j \in 1..Len(settled) : IsUnexpectedRejection(settled[j])}}

\* the indicators whose promise was fulfilled
Up(settled) ==
    {Indicators[i] : i \in {j \in 1..Len(settled) : IsFulfilled(settled[j])}}

\* isHealthy() has answered the pass: the pass awaits the other indicators,
\* or it has finished after invoking the dag indicator
DagAnswered == pass.pc \in {"pending", "done"} /\ pass.dag # None

\* `head` is the beginning of `whole`
IsPrefix(head, whole) ==
    Len(head) <= Len(whole) /\ head = SubSeq(whole, 1, Len(head))

\* the call produced a report: it returned one, or failed with one
HasReport(result) ==
    \/ result.status = "fulfilled"
    \/ result.status = "rejected" /\ result.reason.name = "ServiceUnavailableException"

\* the report a call produced
ReportOf(result) ==
    IF result.status = "fulfilled" THEN result.value ELSE result.reason.response

\* a report that lists every registered indicator once: six entries in
\* details, each name in exactly one of info and error
WellFormed(report) ==
    /\ DOMAIN report.details = IndicatorNames
    /\ Cardinality(DOMAIN report.details) = Len(Indicators)
    /\ DOMAIN report.info \cup DOMAIN report.error = IndicatorNames
    /\ DOMAIN report.info \cap DOMAIN report.error = {}

(* C1, as claimed: every finished check() call, whatever mix of UP, DOWN    *)
(* and faulting indicators it met, has produced a report whose details has  *)
(* exactly six entries, one per registered name, each name in exactly one   *)
(* of info and error.                                                       *)
C1_Claim_SixEntries ==
    pass.pc = "done" =>
        /\ HasReport(pass.result)
        /\ WellFormed(ReportOf(pass.result))

\* every report that is produced lists the six indicators once
ReportsAreWellFormed ==
    (pass.pc = "done" /\ HasReport(pass.result)) => WellFormed(ReportOf(pass.result))

(* C2: in every report check() produces, status is 'ok' exactly when the    *)
(* error map is empty and 'error' exactly when it is not; and it is 'ok'    *)
(* exactly when every indicator's result is UP.                             *)
C2_StatusIffNoError ==
    (pass.pc = "done" /\ HasReport(pass.result)) =>
        LET report == ReportOf(pass.result)
        IN  /\ report.status \in {"ok", "error"}
            /\ (report.status = "ok") = (DOMAIN report.error = {})
            /\ (report.status = "error") = (DOMAIN report.error # {})
            /\ (report.status = "ok") = (Up(pass.settled) = IndicatorNames)
            /\ (report.status = "ok") =
                  (\A n \in IndicatorNames : report.details[n].status = "up")

\* a report with status 'error' that has entries in info and in error
C2_Witness ==
    /\ pass.pc = "done"
    /\ HasReport(pass.result)
    /\ ReportOf(pass.result).status = "error"
    /\ DOMAIN ReportOf(pass.result).info # {}
    /\ DOMAIN ReportOf(pass.result).error # {}

(* C3, as claimed: with F the set of indicators that are DOWN or raise a    *)
(* fault, every indicator is still invoked, every indicator outside F is in *)
(* info, every indicator in F is in error, and status is 'error' when F is  *)
(* not empty.                                                               *)
C3_Claim_FailureIsolated ==
    pass.pc = "done" =>
        LET F == Down(pass.settled) \cup Faulted(pass.settled)
        IN  /\ pass.invoked = Indicators
            /\ HasReport(pass.result)
            /\ DOMAIN ReportOf(pass.result).info = IndicatorNames \ F
            /\ DOMAIN ReportOf(pass.result).error = F
            /\ F # {} => ReportOf(pass.result).status = "error"

\* the same, for the indicators that fail with the check-failed error only
IsolatedWhenNoFault ==
    (pass.pc = "done" /\ Faulted(pass.settled) = {}) =>
        /\ pass.invoked = Indicators
        /\ HasReport(pass.result)
        /\ DOMAIN ReportOf(pass.result).info = IndicatorNames \ Down(pass.settled)
        /\ DOMAIN ReportOf(pass.result).error = Down(pass.settled)
        /\ Down(pass.settled) # {} => ReportOf(pass.result).status = "error"

(* C4, as claimed: a check() call never fails because an indicator is DOWN  *)
(* or faulted; it completes by returning the report.                        *)
C4_Claim_NeverFails ==
    pass.pc = "done" => pass.result.status = "fulfilled"

\* What the code guarantees: check() returns the report only when every
\* indicator is UP.  When indicators fail with the check-failed error and
\* none raises another error, the call assembles the report, with exactly
\* those indicators in error, and fails with a service-unavailable error
\* that carries it.  When an indicator raises any other error the call fails
\* with the first such error, in registration order, and no report.
FailsWithReport ==
    pass.pc = "done" =>
        LET down == Down(pass.settled)
            faulted == Faulted(pass.settled)
            result == pass.result
        IN  /\ (down = {} /\ faulted = {}) =>
                  /\ result.status = "fulfilled"
                  /\ result.value.status = "ok"
                  /\ DOMAIN result.value.info = IndicatorNames
            /\ (down # {} /\ faulted = {}) =>
                  /\ result.status = "rejected"
                  /\ result.reason.name = "ServiceUnavailableException"
                  /\ result.reason.response.status = "error"
                  /\ DOMAIN result.reason.response.error = down
                  /\ DOMAIN result.reason.response.info = IndicatorNames \ down
            /\ faulted # {} =>
                  /\ result.status = "rejected"
                  /\ result.reason.name = "Error"
                  /\ \E i \in 1..Len(pass.settled) :
                        /\ IsUnexpectedRejection(pass.settled[i])
                        /\ result.reason = pass.settled[i].reason
                        /\ \A j \in 1..(i - 1) : ~IsUnexpectedRejection(pass.settled[j])

(* C9: when isHealthy() fails, the check-failed error carries as its cause  *)
(* the result it would have returned: name 'dag', status DOWN, network the  *)
(* payload the indicator held at the call; and the report of the health     *)
(* check holds that result under error['dag'].                              *)
C9_ErrorCarriesResult ==
    (DagAnswered /\ pass.dag.status = "rejected") =>
        /\ pass.dag = CheckFailed(LeftBy(pass.ctx.last)[2])
        /\ pass.dag.reason.causes # NoData
        /\ (pass.pc = "done" /\ HasReport(pass.result)) =>
              /\ "dag" \in DOMAIN ReportOf(pass.result).error
              /\ ReportOf(pass.result).error["dag"] =
                    [status |-> "down", network |-> LeftBy(pass.ctx.last)[2]]
              /\ ReportOf(pass.result).details["dag"] =
                    ReportOf(pass.result).error["dag"]

\* after an offline notification with descriptor 1, a health check has
\* produced a report whose error['dag'] shows that descriptor
C9_Witness ==
    /\ pass.pc = "done"
    /\ DagAnswered
    /\ pass.dag.status = "rejected"
    /\ pass.ctx.last = Delivered(FALSE, 1)
    /\ HasReport(pass.result)
    /\ ReportOf(pass.result).error["dag"].network = 1

(* C10, as claimed: a health check requested while the report of the        *)
(* previous check is still within its time-to-live is answered from the     *)
(* cache, and no indicator is invoked for it.                               *)
C10_Claim_CacheHit ==
    ~(pass.live /\ pass.invoked # <<>>)

----------------------------------------------------------------------------
\* the call in progress was made after the report of the previous call expired
AfterExpiry == pass.expired /\ pass.pc \in {"running", "invoking", "pending", "done"}

(* C11, as claimed: a report is never served from the cache once its        *)
(* time-to-live has passed; the first health check after expiry invokes all *)
(* indicators again, and the fresh report it returns is stored as the       *)
(* single cache entry of the route.                                         *)
C11_Claim_StoredAfterExpiry ==
    AfterExpiry =>
        /\ pass.invoked # <<>>
        /\ (pass.pc = "done" /\ pass.result.status = "fulfilled") =>
              /\ pass.invoked = Indicators
              /\ \E entry \in ResponseCache :
                    /\ entry.value = pass.result.value
                    /\ ResponseCache = {entry}

\* the part that holds: a check made after expiry invokes the indicators
\* again (all of them, unless the sequential executor stops at an error that
\* is not a HealthCheckError) and its result is computed from the promises
\* of this call
FreshAfterExpiry ==
    AfterExpiry =>
        /\ pass.invoked # <<>>
        /\ pass.pc = "done" =>
              /\ pass.result = HealthControllerCheck(HealthServiceCheck(pass.settled))
              /\ Faulted(pass.settled) = {} => pass.invoked = Indicators

----------------------------------------------------------------------------
(* C12, as claimed: of health checks that overlap in time, only one runs    *)
(* the indicators; a request that arrives while the pass of an earlier      *)
(* request is still in progress invokes no indicator.                       *)
C12_Claim_BurstCollapsed ==
    \A k \in DOMAIN pass.prior :
        (InProgress(pass.prior[k]) /\ pass.prior[k].invoked # <<>>) => pass.invoked = <<>>

----------------------------------------------------------------------------
(* C13, as claimed: GET /health/check answers with the report as a success  *)
(* exactly when the report's status is 'ok', and whenever the status is     *)
(* 'error' it answers with a BadRequestException (400).                     *)
C13_Claim_BadRequestOnError ==
    (pass.pc = "done" /\ Faulted(pass.settled) = {}) =>
        /\ (pass.result.status = "fulfilled") = (Down(pass.settled) = {})
        /\ Down(pass.settled) # {} =>
              /\ pass.result.status = "rejected"
              /\ pass.result.reason.name = "BadRequestException"

\* what the route does answer: the report when its status is 'ok', and
\* otherwise the ServiceUnavailableException (503) whose body is the report
AnswersOkOrUnavailable ==
    (pass.pc = "done" /\ HasReport(pass.result)) =>
        /\ (pass.result.status = "fulfilled") = (ReportOf(pass.result).status = "ok")
        /\ pass.result.status = "rejected" =>
              pass.result.reason = ServiceUnavailableException(
                  getResult(Results(pass.settled), Errors(pass.settled)))

----------------------------------------------------------------------------
\* a step of one of the two notification handlers
HandlerStep ==
    \/ \E payload \in CheckPayloads : handleNetworkThresholdOnline(payload)
    \/ onlineAssignNetwork
    \/ \E payload \in CheckPayloads : handleNetworkThresholdOffline(payload)
    \/ offlineAssignNetwork

\* every finished isHealthy() call and every finished pass of check() shows
\* the pair of the notification that was the last delivered when it began
ReadsShowLastNote ==
    /\ out.kind = "settled" => ResultPair(out.promise) = LeftBy(out.ctx.last)
    /\ DagAnswered => ResultPair(pass.dag) = LeftBy(pass.ctx.last)

(* C14: only the notification handlers change (_isHealthy, dagNetwork): a   *)
(* step of isHealthy(), check() or infos(), and the passing of time, leave  *)
(* both unchanged; so every isHealthy() and check() call made between two   *)
(* notifications observes the flag and payload of the earlier of the two.   *)
C14_HandlersSoleMutators ==
    /\ [][(_isHealthy' # _isHealthy \/ dagNetwork' # dagNetwork) => HandlerStep]_vars
    /\ []ReadsShowLastNote

\* after an online notification with descriptor 1, a direct isHealthy()
\* call, a health check and an infos() call have all finished, and the
\* fields still hold what the notification set
C14_Witness ==
    /\ lastNote = Delivered(TRUE, 1)
    /\ out.kind = "settled" /\ out.ctx.last = lastNote
    /\ pass.pc = "done" /\ DagAnswered /\ pass.ctx.last = lastNote
    /\ Awaiting("a", "answered")
    /\ ResultPair(out.promise) = <<"up", 1>>
    /\ ResultPair(pass.dag) = <<"up", 1>>
    /\ _isHealthy = TRUE
    /\ dagNetwork = 1

----------------------------------------------------------------------------
\* what isHealthy() gives on an indicator whose fields are `fields`
ReadOf(fields) ==
    isHealthySettled(fields[1], getStatus("dag", fields[1], [network |-> fields[2]]))

(* C15: a notification equal to the one delivered just before it (same kind, *)
(* same descriptor) leaves (_isHealthy, dagNetwork) as the first delivery    *)
(* left them, and isHealthy() gives the result it would have given after     *)
(* the first delivery.                                                       *)
C15_Idempotent ==
    /\ (hpc = "idle" /\ repeated.is) => <<_isHealthy, dagNetwork>> = repeated.before
    /\ (out.kind = "settled" /\ out.ctx.rep.is) =>
          out.promise = ReadOf(out.ctx.rep.before)

\* the online notification with descriptor 2 was delivered twice in a row
\* and isHealthy() was called after the second delivery
C15_Witness ==
    /\ hpc = "idle"
    /\ repeated.is
    /\ lastNote = Delivered(TRUE, 2)
    /\ out.kind = "settled"
    /\ out.ctx.rep.is
    /\ out.ctx.last = lastNote
    /\ out.promise.status = "fulfilled"

----------------------------------------------------------------------------
(* C16, as claimed: within one check() the flag of the DAG indicator is     *)
(* read once, the read that decides between success and failure being the   *)
(* one that built the status of the result.                                 *)
C16_Claim_SingleRead ==
    DagAnswered => Len(pass.reads) = 1

(* C16, amended: within one check() isHealthy() reads the flag twice, once  *)
(* to build the status of the result and once to decide between returning   *)
(* and failing; no notification is handled between the two reads, so both   *)
(* give the same value, and the status in the result agrees with the        *)
(* outcome of isHealthy() and with the map of the report that holds 'dag'.  *)
C16_ReadsAgree ==
    DagAnswered =>
        /\ Len(pass.reads) = 2
        /\ pass.reads[1] = pass.reads[2]
        /\ pass.at = pass.ctx.last
        /\ (pass.dag.status = "fulfilled") = (ResultPair(pass.dag)[1] = "up")
        /\ (pass.dag.status = "rejected") = (ResultPair(pass.dag)[1] = "down")
        /\ (pass.pc = "done" /\ HasReport(pass.result)) =>
              /\ ("dag" \in DOMAIN ReportOf(pass.result).info) = (pass.dag.status = "fulfilled")
              /\ ReportOf(pass.result).details["dag"].status = ResultPair(pass.dag)[1]

\* a health check that read the flag as set both times and returned 'dag'
\* UP, after which an offline notification has been delivered
C16_Witness ==
    /\ pass.pc = "done"
    /\ DagAnswered
    /\ pass.reads = <<TRUE, TRUE>>
    /\ pass.dag.status = "fulfilled"
    /\ HasReport(pass.result)
    /\ lastNote # None
    /\ ~lastNote.isOnline

----------------------------------------------------------------------------
\* the status a settled promise of a library indicator shows under `key`
StatusOf(promise, key) ==
    IF promise.status = "fulfilled" THEN promise.value[key].status
    ELSE promise.reason.causes[key].status

\* a promise settled the way an indicator reports UP or DOWN
ReportsUp(promise, key) == IsFulfilled(promise) /\ StatusOf(promise, key) = "up"
ReportsDown(promise, key) == IsExpectedRejection(promise) /\ StatusOf(promise, key) = "down"

(* C17: the threshold checks compare inclusively.  The storage check is UP  *)
(* when the used fraction of the disk is at most 1/2 and DOWN when it is    *)
(* above 1/2 by any amount; the heap and RSS checks are UP exactly when the *)
(* usage is at most 500*1024*1024 bytes and DOWN otherwise.                 *)
C17_InclusiveThresholds ==
    /\ (probe.kind = "storage" /\ probe.size > 0) =>
          /\ 2 * probe.used <= probe.size => ReportsUp(probe.promise, "storage")
          /\ 2 * probe.used > probe.size => ReportsDown(probe.promise, "storage")
    /\ probe.kind = "memory_heap" =>
          /\ probe.usage <= 524288000 => ReportsUp(probe.promise, "memory_heap")
          /\ probe.usage > 524288000 => ReportsDown(probe.promise, "memory_heap")
    /\ probe.kind = "memory_rss" =>
          /\ probe.usage <= 524288000 => ReportsUp(probe.promise, "memory_rss")
          /\ probe.usage > 524288000 => ReportsDown(probe.promise, "memory_rss")

\* a disk used to exactly half of its size has been reported UP
C17_Witness ==
    /\ probe.kind = "storage"
    /\ probe.size = 12
    /\ probe.used = 6
    /\ ReportsUp(probe.promise, "storage")

----------------------------------------------------------------------------
\* the pass has finished and in it the read of the disk usage had failed
StorageReadFailed ==
    /\ pass.pc = "done"
    /\ pass.settled[1] = LibraryPromise("storage", "fault")

(* C18, as claimed: when the read of the disk usage behind the storage      *)
(* check fails, the check still produces its report, in which 'storage' is  *)
(* in error with status DOWN and a message; the call does not fail with the *)
(* error of the read.                                                       *)
C18_Claim_ReadFailureIsDown ==
    StorageReadFailed =>
        /\ HasReport(pass.result)
        /\ "storage" \in DOMAIN ReportOf(pass.result).error
        /\ ReportOf(pass.result).error["storage"].status = "down"
        /\ "message" \in DOMAIN ReportOf(pass.result).error["storage"]

\* what happens instead: the call fails with the error of the read itself
ReadFailureEscapes ==
    StorageReadFailed =>
        /\ ~HasReport(pass.result)
        /\ pass.result = Rejected(pass.settled[1].reason)

----------------------------------------------------------------------------
\* a settled ping shows what settled it: UP when the round trip completed
\* before the timeout, DOWN when the connection failed or the timer fired
SettledAsItEnded(name) ==
    SettledPing(name) =>
        /\ probe[name].how = "answered" =>
              /\ probe[name].at < TimeoutTicks
              /\ ReportsUp(probe[name].promise, name)
        /\ probe[name].how \in {"refused", "timeout"} =>
              ReportsDown(probe[name].promise, name)
        /\ probe[name].how = "timeout" => probe[name].at = TimeoutTicks

(* C19: every ping (mongoose, redis) that has been started settles: UP if   *)
(* the round trip completes within the timeout, DOWN once the timeout has   *)
(* elapsed or the connection is refused.  A dependency that never answers   *)
(* does not keep a ping pending, so every indicator of the health check     *)
(* that waits on a dependency settles.                                      *)
C19_PingsSettle ==
    /\ \A name \in PingIndicators : Waiting(name) ~> SettledPing(name)
    /\ (\E name \in PingIndicators : Waiting(name)) ~>
           (\A name \in PingIndicators : SettledPing(name))
    /\ [](\A name \in PingIndicators : SettledAsItEnded(name))

\* the redis ping was settled by the timer while mongoose had answered
C19_Witness ==
    /\ SettledPing("redis")
    /\ probe.redis.how = "timeout"
    /\ ReportsDown(probe.redis.promise, "redis")
    /\ SettledPing("mongoose")
    /\ probe.mongoose.how = "answered"

----------------------------------------------------------------------------
\* the ping of `name` ended with an error of the connection
Refused(name) == SettledPing(name) /\ probe[name].how = "refused"

(* C20, as claimed: a connection error during a ping check, of mongoose or  *)
(* of redis, becomes a DOWN result for that indicator whose detail carries  *)
(* the message of the error.                                                *)
C20_Claim_MessageInDetail ==
    \A name \in PingIndicators :
        Refused(name) =>
            /\ ReportsDown(probe[name].promise, name)
            /\ "message" \in DOMAIN probe[name].promise.reason.causes[name]
            /\ probe[name].promise.reason.causes[name].message = probe[name].error

(* C20, amended: a connection error during a ping check is captured and     *)
(* turned into a DOWN result for that indicator, which the health check     *)
(* lists under error; it never surfaces as an uncaught fault of the check.  *)
(* The redis result carries the message of the error in its detail.  The    *)
(* mongoose result carries the status alone, and its error says only that   *)
(* 'mongoose is not available'.                                             *)
C20_ConnectionErrorIsDown ==
    \A name \in PingIndicators :
        Refused(name) =>
            LET promise == probe[name].promise
            IN  /\ ReportsDown(promise, name)
                /\ Unexpected(<<promise>>) = <<>>
                /\ getSummary(Errors(<<promise>>)) = promise.reason.causes
                /\ name = "redis" =>
                      promise.reason.causes =
                          [redis |-> [status |-> "down", message |-> probe[name].error]]
                /\ name = "mongoose" =>
                      /\ promise.reason.causes = [mongoose |-> [status |-> "down"]]
                      /\ promise.reason.message = "mongoose is not available"

\* both pings ended with a refused connection
C20_Witness ==
    /\ Refused("redis")
    /\ probe.redis.error = "connect ECONNREFUSED"
    /\ Refused("mongoose")
    /\ ReportsDown(probe.redis.promise, "redis")
    /\ ReportsDown(probe.mongoose.promise, "mongoose")

----------------------------------------------------------------------------
\* the caller has given up on the pings that are running
CallerGone == PingsRunning /\ probe.cancelled

(* C21, as claimed: once the caller of check() has timed out or cancelled,  *)
(* no ping is waited on any longer: every ping that was pending has been    *)
(* settled as DOWN.                                                         *)
C21_Claim_CancelAborts ==
    CallerGone => \A name \in PingIndicators : SettledPing(name)

(* C21, amended: check() offers its caller no cancellation.  When the       *)
(* caller gives up while a ping is pending, the ping goes on: it is settled *)
(* only by its own round trip or its own timeout, never with a 'cancelled'  *)
(* detail, and it does settle, at the latest when its timeout has elapsed.  *)
C21_PingsOutliveCaller ==
    /\ [](\A name \in PingIndicators :
            SettledPing(name) =>
                /\ probe[name].how \in {"answered", "refused", "timeout"}
                /\ probe[name].at <= TimeoutTicks)
    /\ \A name \in PingIndicators :
            (CallerGone /\ Waiting(name)) ~> SettledPing(name)

\* the caller gave up, and the redis ping went on until its own timeout fired
C21_Witness ==
    /\ CallerGone
    /\ SettledPing("redis")
    /\ probe.redis.how = "timeout"
    /\ probe.redis.promise.reason.causes["redis"].message = TimeoutMessage

----------------------------------------------------------------------------
\* the order in which the indicator functions are written at lines 354-359
RegistrationOrder ==
    <<"storage", "memory_heap", "memory_rss", "mongoose", "redis", "dag">>

\* the same settled promises with the i-th and the (i+1)-th exchanged
SwapAt(settled, i) ==
    [k \in 1..Len(settled) |->
        IF k = i THEN settled[i + 1]
        ELSE IF k = i + 1 THEN settled[i]
        ELSE settled[k]]

(* C24: a pass invokes the indicators in registration order (storage,       *)
(* memory_heap, memory_rss, mongoose, redis, dag): at any moment those      *)
(* invoked so far are the first ones of that order, and all six have been   *)
(* invoked once isHealthy() runs or the pass ends without an error that is  *)
(* not a HealthCheckError.  What the call answers does not depend on the    *)
(* order of the settled promises: exchanging any two neighbouring ones,     *)
(* hence any reordering, gives the same answer.                             *)
C24_OrderIrrelevant ==
    /\ pass.pc # "idle" =>
          /\ pass.invoked # <<>>
          /\ IsPrefix(pass.invoked, RegistrationOrder)
          /\ Len(pass.settled) <= Len(pass.invoked)
    /\ (pass.pc \in {"invoking", "pending"} \/ (pass.pc = "done" /\ Faulted(pass.settled) = {}))
          => pass.invoked = RegistrationOrder
    /\ pass.pc = "done" =>
          /\ Len(pass.settled) = Len(pass.invoked)
          /\ \A i \in 1..(Len(pass.settled) - 1) :
                HealthControllerCheck(HealthServiceCheck(SwapAt(pass.settled, i)))
                    = pass.result

\* a pass in which mongoose alone failed: five results and one error
C24_Witness ==
    /\ pass.pc = "done"
    /\ pass.invoked = RegistrationOrder
    /\ HasReport(pass.result)
    /\ DOMAIN ReportOf(pass.result).error = {"mongoose"}
    /\ DOMAIN ReportOf(pass.result).info =
           {"storage", "memory_heap", "memory_rss", "redis", "dag"}

----------------------------------------------------------------------------
\* the pass has finished, and no online notification had been delivered
\* when it invoked isHealthy() (when it ended, if it never came to that)
FinishedBeforeOnline ==
    /\ pass.pc = "done"
    /\ IF pass.ctx = None THEN ~everOnline ELSE ~pass.ctx.online

(* C28, as claimed: from process start until the first online notification  *)
(* has been handled, every pass yields a report of status 'error' with      *)
(* 'dag' in its error map, whatever the other five indicators did; and a    *)
(* report of status 'ok' is only produced after an online notification.     *)
C28_Claim_ErrorUntilOnline ==
    /\ FinishedBeforeOnline =>
          /\ HasReport(pass.result)
          /\ ReportOf(pass.result).status = "error"
          /\ "dag" \in DOMAIN ReportOf(pass.result).error
    /\ (pass.pc = "done" /\ IsFulfilled(pass.result)) => pass.ctx.online

\* What the code guarantees: before the first online notification no pass
\* answers 'ok'; it yields the 'error' report with 'dag' in the error map
\* unless the storage read failed, in which case there is no report.
NotOkUntilOnline ==
    /\ FinishedBeforeOnline =>
          /\ ~IsFulfilled(pass.result)
          /\ HasReport(pass.result) =>
                /\ ReportOf(pass.result).status = "error"
                /\ "dag" \in DOMAIN ReportOf(pass.result).error
          /\ ~HasReport(pass.result) <=> Faulted(pass.settled) # {}
    /\ (pass.pc = "done" /\ IsFulfilled(pass.result)) => pass.ctx.online

----------------------------------------------------------------------------
\* the (status, payload) pair the indicator's fields stand for right now
CurrentPair == <<IF _isHealthy THEN "up" ELSE "down", dagNetwork>>

\* the (status, payload) pair of the dag entry of a report
ReportedPair(report) == <<report.details["dag"].status, report.details["dag"].network>>

\* the step in which a pass settles with a report
ReportReturned ==
    /\ pass.pc \in {"running", "invoking", "pending"}
    /\ pass'.pc = "done"
    /\ HasReport(pass'.result)

(* C29, as claimed: without a cache in between, the dag entry of a report   *)
(* agrees with the indicator's state when the report is returned.           *)
C29_Claim_FreshWhenReturned ==
    [][ReportReturned => ReportedPair(ReportOf(pass'.result)) = CurrentPair']_vars

(* C29, amended: the dag entry of every report is the indicator's (healthy, *)
(* payload) state at the moment the pass invoked isHealthy(), which is      *)
(* before the report is assembled.  A report can disagree with the          *)
(* indicator's state at the moment it is returned only when a notification  *)
(* was handled after that invocation.                                       *)
C29_DagEntryAsInvoked ==
    /\ [](DagAnswered => ResultPair(pass.dag) = LeftBy(pass.at))
    /\ []((pass.pc = "done" /\ HasReport(pass.result)) =>
             ReportedPair(ReportOf(pass.result)) = LeftBy(pass.at))
    /\ [][(ReportReturned /\ ReportedPair(ReportOf(pass'.result)) # CurrentPair')
             => lastNote' # pass'.at]_vars

\* a notification was handled after isHealthy() returned to the pass and
\* before the report is assembled: the dag result the report will carry
\* already differs from the indicator's state
C29_Witness ==
    /\ pass.pc = "pending"
    /\ hpc = "idle"
    /\ lastNote # pass.at
    /\ ResultPair(pass.dag) = LeftBy(pass.at)
    /\ ResultPair(pass.dag) # CurrentPair

----------------------------------------------------------------------------
\* the outcome the kind of the last event stands for: UP after an online
\* event, DOWN after an offline event or before any event.  The descriptor
\* of the event is not an argument.
KindOutcome(note) == IF note = None THEN "down" ELSE IF note.isOnline THEN "up" ELSE "down"

(* C30: the healthy flag depends only on the kind of the events, never on   *)
(* their descriptors.  Every outcome of isHealthy() is the function         *)
(* KindOutcome of the kinds delivered so far, whatever descriptors the      *)
(* events carried (a missing network field included); so two runs that      *)
(* receive the same sequence of event kinds with different descriptors      *)
(* show the same sequence of UP/DOWN outcomes.                              *)
C30_FlagFromKindOnly ==
    /\ hpc = "idle" => _isHealthy = (KindOutcome(lastNote) = "up")
    /\ out # None =>
          /\ IsFulfilled(out.promise) <=> KindOutcome(out.at) = "up"
          /\ CarriedResult(out.promise)["dag"].status = KindOutcome(out.at)

\* isHealthy() answered UP after an online event without a network field,
\* as it does after an online event with one
C30_Witness ==
    /\ out # None
    /\ out.at # None
    /\ out.at.isOnline
    /\ out.at.network = Undefined
    /\ IsFulfilled(out.promise)
    /\ out.promise.value["dag"].status = "up"

----------------------------------------------------------------------------
\* the step of an infos() request
InfosStep == probe' # probe /\ probe'.kind = "infos"

\* the fields of the snapshot infos() returns
SnapshotFields ==
    {"platform", "release", "machine", "arch", "uptime", "cpu", "memory", "drive", "network"}

(* C22: infos() bypasses the health-check aggregator.  No step of a metrics *)
(* request, from the call to the answer, invokes any of the six indicators, *)
(* reads or changes the state of the DAG indicator, or reads or changes the *)
(* report of a health check or the cache that would hold it: its answer is  *)
(* a function of what it read of the operating system and the process.      *)
C22_InfosBypassesCheck ==
    [][InfosStep =>
        /\ UNCHANGED <<pass, age, out>>
        /\ UNCHANGED <<_isHealthy, dagNetwork, hpc, rpc, rflag, rresult>>
        /\ ResponseCache = {}
        /\ \A slot \in Slots :
              (Awaiting(slot, "return") /\ probe'[slot].pc = "answered") =>
                  probe'[slot].promise =
                      HealthControllerInfos(HealthServiceInfos(probe'[slot].sample))
      ]_vars

\* a metrics request has been answered with a snapshot while the pass of a
\* health check, made on an online indicator, has its six indicators invoked
\* and is waiting for them
C22_Witness ==
    /\ Awaiting("a", "answered")
    /\ IsFulfilled(probe.a.promise)
    /\ pass.pc = "pending"
    /\ pass.invoked = Indicators
    /\ IsFulfilled(pass.dag)
    /\ _isHealthy

----------------------------------------------------------------------------
\* the request in `slot` has been answered, and it was made while the
\* snapshot answered before it was within its time-to-live
WithinInfosTTL(slot) ==
    /\ Awaiting(slot, "answered")
    /\ probe[slot].before # None
    /\ probe[slot].before.status = "fulfilled"
    /\ probe[slot].before.age < CacheTTL

(* C23, as claimed: the metrics endpoint is cached for one unit of time: a  *)
(* request made within the time-to-live of the previous snapshot is         *)
(* answered with that snapshot, without the metrics being collected again.  *)
C23_Claim_InfosCacheHit ==
    \A slot \in Slots :
        WithinInfosTTL(slot) =>
            /\ IsFulfilled(probe[slot].promise)
            /\ CpuOf(probe[slot].promise) = probe[slot].before.cpu

\* What the code does: every metrics request collects the metrics anew and
\* answers with what it collected, whatever the age of the previous snapshot.
InfosAlwaysCollects ==
    \A slot \in Slots :
        Awaiting(slot, "answered") =>
            /\ probe[slot].promise =
                   HealthControllerInfos(HealthServiceInfos(probe[slot].sample))
            /\ IsFulfilled(probe[slot].promise) =>
                  /\ DOMAIN probe[slot].promise.value = SnapshotFields
                  /\ probe[slot].promise.value.cpu.usage.num =
                         probe[slot].sample.cpuUsage.user + probe[slot].sample.cpuUsage.system

----------------------------------------------------------------------------
(* C25: when HealthService.infos() fails, because a provider other than the *)
(* network statistics raised (the operating system, the architecture, the   *)
(* memory, the drive, or getCpuUsage() on a machine that lists no core),    *)
(* HealthController.infos() answers with a BadRequestException that carries *)
(* the message of the original error; the original error never escapes as   *)
(* it is, and no partial snapshot is returned.                              *)
C25_FailureBecomesBadRequest ==
    Awaiting("a", "answered") =>
        /\ (probe.a.sample.failed # "none" \/ probe.a.sample.cpus = <<>>) =>
              probe.a.service.status = "rejected"
        /\ probe.a.service.status = "rejected" =>
              /\ probe.a.promise.status = "rejected"
              /\ probe.a.promise.reason.name = "BadRequestException"
              /\ probe.a.promise.reason.message = probe.a.service.reason.message
              /\ "value" \notin DOMAIN probe.a.promise
        /\ probe.a.service.status = "fulfilled" =>
              /\ probe.a.promise = probe.a.service
              /\ DOMAIN probe.a.promise.value = SnapshotFields

\* the drive could not be read while the network statistics and the cores
\* could: the request was refused with the message of the drive's error
C25_Witness ==
    /\ Awaiting("a", "answered")
    /\ probe.a.sample.failed = "drive"
    /\ probe.a.sample.netstat.ok
    /\ probe.a.sample.netstat.stats # <<>>
    /\ probe.a.sample.cpus = <<1>>
    /\ probe.a.promise = Rejected(BadRequestException("drive"))

----------------------------------------------------------------------------
\* the total of one counter over a list of interfaces, counted from the head
RECURSIVE TotalOf(_, _)
TotalOf(stats, counter) ==
    IF stats = <<>> THEN 0 ELSE Head(stats)[counter] + TotalOf(Tail(stats), counter)

\* the request in slot a was answered after every provider but, possibly,
\* the network statistics answered, on a machine with a core
OthersAnswered ==
    /\ Awaiting("a", "answered")
    /\ probe.a.sample.failed = "none"
    /\ probe.a.sample.cpus # <<>>

(* C26: the network field of the snapshot is the sum, counter by counter,   *)
(* of inputBytes and outputBytes over all interfaces, 0/0 for an empty      *)
(* list; when the network statistics cannot be read the field is 0/0 and    *)
(* infos() still returns the rest of the snapshot.                          *)
C26_NetworkIsSum ==
    OthersAnswered =>
        /\ probe.a.promise.status = "fulfilled"
        /\ probe.a.sample.netstat.ok =>
              probe.a.promise.value.network =
                  [inputBytes  |-> TotalOf(probe.a.sample.netstat.stats, "inputBytes"),
                   outputBytes |-> TotalOf(probe.a.sample.netstat.stats, "outputBytes")]
        /\ (~probe.a.sample.netstat.ok \/ probe.a.sample.netstat.stats = <<>>) =>
              probe.a.promise.value.network = [inputBytes |-> 0, outputBytes |-> 0]
        /\ DOMAIN probe.a.promise.value = SnapshotFields

\* two interfaces with different counters: the snapshot shows their sums
C26_Witness ==
    /\ OthersAnswered
    /\ probe.a.sample.netstat.ok
    /\ probe.a.sample.netstat.stats = <<[inputBytes |-> 1, outputBytes |-> 0],
                                        [inputBytes |-> 1, outputBytes |-> 1]>>
    /\ IsFulfilled(probe.a.promise)
    /\ probe.a.promise.value.network = [inputBytes |-> 2, outputBytes |-> 1]

----------------------------------------------------------------------------
\* the fraction a is at most the fraction b (denominators are positive)
AtMost(a, b) == a.num * b.den <= b.num * a.den

\* both requests have been answered with a snapshot, and the one in `slot`
\* was made before the other
MadeBefore(slot) ==
    /\ Awaiting(slot, "answered") /\ Awaiting(Other(slot), "answered")
    /\ probe.earlier = slot
    /\ IsFulfilled(probe[slot].promise) /\ IsFulfilled(probe[Other(slot)].promise)

(* C27, as claimed: with a fixed number of cores, cpu.usage never decreases *)
(* along the sequence of infos() calls: of two calls, the one made later    *)
(* reports a usage at least as large.                                       *)
C27_Claim_CpuUsageMonotone ==
    \A slot \in Slots :
        MadeBefore(slot) =>
            AtMost(probe[slot].promise.value.cpu.usage,
                   probe[Other(slot)].promise.value.cpu.usage)

(* C27, amended: with a fixed number of cores, cpu.usage is the cumulative  *)
(* user plus system CPU time of the process divided by the number of cores  *)
(* (times 1000 * 1000), never reset: it never decreases from one            *)
(* getCpuUsage() call to the next, hence from one infos() call to one made  *)
(* after the first was answered.  Between infos() calls that overlap it may *)
(* decrease in the order of the calls.                                      *)
C27_CpuUsageMonotone ==
    \A slot \in Slots :
        (Awaiting(slot, "answered") /\ IsFulfilled(probe[slot].promise)) =>
            LET call == probe[slot]
                cpu == call.promise.value.cpu
            IN  /\ cpu.usage.num = call.sample.cpuUsage.user + call.sample.cpuUsage.system
                /\ cpu.usage.den = Len(call.sample.cpus) * 1000000
                /\ cpu.cpus = Len(call.sample.cpus)
                /\ call.prior # None =>
                      /\ call.prior.cpus = cpu.cpus
                      /\ AtMost(call.prior.usage, cpu.usage)
                /\ (call.before # None /\ call.before.status = "fulfilled") =>
                      /\ call.before.cpu.cpus = cpu.cpus
                      /\ AtMost(call.before.cpu.usage, cpu.usage)

\* two overlapping requests: the one in slot a was made first and called
\* getCpuUsage() last, after the process had used CPU time in both modes; it
\* reports the larger usage, which is not less than the one read before it
C27_Witness ==
    /\ MadeBefore("a")
    /\ probe.a.sample.cpuUsage = [user |-> 1, system |-> 1]
    /\ probe.a.promise.value.cpu.usage.num = 2
    /\ probe.b.promise.value.cpu.usage.num = 1
    /\ probe.a.prior = probe.b.promise.value.cpu

====
